---- MODULE Spec2Model ----
(***************************************************************************)
(* Lead scoring engine with A/B-tested variant selection.                  *)
(*                                                                         *)
(*   config/lead_scoring.py   LeadScoringConfig and its tables             *)
(*   models/lead_score.py     LeadScore.calculate_grade                    *)
(*   utils/lead_scoring.py    LeadScoringService                           *)
(*   utils/ab_testing.py      ABTestTracker.get_variant_assignment         *)
(*   scripts/score_leads.py   score_companies (persists a batch)           *)
(*                                                                         *)
(* Units.  Python floats are carried as exact integers:                    *)
(*   IndustryWeight.weight          in tenths      (1.8  -> 18)            *)
(*   component weights of a variant in hundredths  (0.35 -> 35)            *)
(*   traffic weights                in thousandths (0.5  -> 500)           *)
(*   component scores               in tenths      (40.5 -> 405)           *)
(*   a weighted sum                 in thousandths                         *)
(* Time is counted in whole days.                                          *)
(***************************************************************************)
EXTENDS Integers, Sequences, FiniteSets, TLC

VARIABLES
    cfg,            \* self.config: the LeadScoringConfig the service was built with
    now,            \* datetime.utcnow(), in days
    pc,             \* where the caller is: "start", then "scored", "batch", ...
    company,        \* the Company passed to calculate_score / the resolvers
    contacts,       \* the contacts argument of calculate_score (None or a list)
    override,       \* the algorithm_variant argument of calculate_score
    result,         \* <<LeadScore>> returned by calculate_score, <<>> before
    naics_in,       \* argument of get_industry_weight
    industry_out,   \* <<IndustryWeight>> returned by get_industry_weight
    test_config,    \* the test_config passed to ABTestTracker
    engine_variant, \* return of LeadScoringService._get_algorithm_variant
    tracker_variant,\* return of ABTestTracker.get_variant_assignment
    score_in,       \* argument of LeadScore.calculate_grade
    grade_out,      \* its return
    prev_score,     \* argument of the call of calculate_grade before it
    prev_grade,     \* and its return
    lead_scores,    \* table lead_scores: rows [id, company_id, created_at, ...]
    lead_score_of,  \* column companies.lead_score, per company id
    batch_ids,      \* company_ids argument of the last batch (<<>> is None)
    selected,       \* companies the last batch's query returned
    failing,        \* companies whose scoring raised in the last batch
    batch_out,      \* list returned by the last batch_score_companies
    batches,        \* batches run so far
    size_out,       \* <<return>> of _calculate_size_score, <<>> before
    contact_out,    \* <<return>> of _calculate_contact_score
    quality_out,    \* <<return>> of _calculate_data_quality_score
    config_in,      \* what the caller building the service supplies as configuration
    queue,          \* messages of queue companies.to_score not yet acknowledged
    sync_msgs,      \* messages published to companies.to_sync.tasks
    returned,       \* <<return>> of the last process_message, <<>> before
    threshold,      \* settings.high_score_threshold
    deliveries,     \* deliveries handled so far
    fault,          \* what raised in the last delivery, "none" if nothing
    dispositions,   \* basic_ack / basic_reject calls of the last delivery
    ab_rows,        \* what the analyzer's query returns, in the order returned
    ab_result,      \* <<ABTestResult>> of analyze_test_results, <<>> before
    records,        \* the Company objects concurrent callers share, by id
    calls           \* per caller: position in calculate_score, arguments, locals

scoreVars == <<company, contacts, override, result>>
industryVars == <<naics_in, industry_out>>
variantVars == <<test_config, engine_variant, tracker_variant>>
gradeVars == <<score_in, grade_out, prev_score, prev_grade>>
batchVars == <<lead_scores, lead_score_of, batch_ids, selected, failing, batch_out,
               batches>>

componentVars == <<size_out, contact_out, quality_out>>
constructVars == <<config_in>>
workerVars == <<queue, sync_msgs, returned, threshold, deliveries, fault,
                dispositions>>
analyzerVars == <<ab_rows, ab_result>>
concurrentVars == <<records, calls>>

vars == <<cfg, now, pc, scoreVars, industryVars, variantVars, gradeVars, batchVars,
          componentVars, constructVars, workerVars, analyzerVars,
          concurrentVars>>

\* Python's None, for string-valued and record-valued places.
None == "None"

Min(a, b) == IF a <= b THEN a ELSE b

(***************************************************************************)
(* config/lead_scoring.py: the default tables                              *)
(***************************************************************************)

IW(code, w, base, risk) ==
    [naics_code |-> code, weight |-> w, base_score |-> base, risk_level |-> risk]

\* LeadScoringConfig.industry_weights (default)
DefaultIndustryWeights ==
    ("621" :> IW("621", 18, 85, "low")) @@
    ("622" :> IW("622", 17, 80, "low")) @@
    ("623" :> IW("623", 16, 75, "medium")) @@
    ("541" :> IW("541", 14, 70, "low")) @@
    ("551" :> IW("551", 13, 68, "low")) @@
    ("31" :> IW("31", 12, 65, "medium")) @@
    ("32" :> IW("32", 12, 65, "medium")) @@
    ("33" :> IW("33", 12, 65, "medium")) @@
    ("52" :> IW("52", 11, 60, "medium")) @@
    ("518" :> IW("518", 13, 68, "low")) @@
    ("519" :> IW("519", 13, 68, "low")) @@
    ("23" :> IW("23", 9, 45, "high")) @@
    ("44" :> IW("44", 8, 40, "high")) @@
    ("45" :> IW("45", 8, 40, "high")) @@
    ("72" :> IW("72", 7, 35, "high"))

\* LeadScoringConfig.default_industry
DefaultIndustry == IW("unknown", 10, 50, "medium")

\* EmployeeSizeConfig.ranges (default), in dict order
DefaultRanges == <<
    [range |-> "1-10", score |-> 20, bonus |-> 0, category |-> "micro"],
    [range |-> "11-50", score |-> 40, bonus |-> 0, category |-> "small"],
    [range |-> "51-100", score |-> 60, bonus |-> 0, category |-> "small-medium"],
    [range |-> "101-250", score |-> 85, bonus |-> 15, category |-> "medium"],
    [range |-> "251-500", score |-> 80, bonus |-> 10, category |-> "medium-large"],
    [range |-> "501-1000", score |-> 70, bonus |-> 0, category |-> "large"],
    [range |-> "1001-5000", score |-> 50, bonus |-> 0, category |-> "enterprise"],
    [range |-> "5000+", score |-> 30, bonus |-> 0, category |-> "mega"] >>

\* EmployeeSizeConfig (default)
DefaultEmployeeSize ==
    [ranges |-> DefaultRanges, optimal_min |-> 100, optimal_max |-> 500,
     bonus_points |-> 15]

\* ContactScoringConfig (default)
DefaultContactScoring ==
    [decision_maker_base_points |-> 10, executive_bonus_points |-> 5,
     hr_benefits_bonus_points |-> 8, verified_email_bonus |-> 3,
     multiple_contacts_bonus |-> 5, max_contact_score |-> 30]

\* LeadScoringConfig.data_quality_weights (default)
DefaultDataQualityWeights ==
    [has_website |-> 5, has_phone |-> 5, has_email_domain |-> 3,
     has_address |-> 3, has_ein |-> 2, recent_data |-> 2]

AV(ver, wi, ws, wc, wd) ==
    [version |-> ver, industry_weight |-> wi, size_weight |-> ws,
     contact_weight |-> wc, data_quality_weight |-> wd]

\* ABTestConfig.algorithm_variants (default)
DefaultAlgorithmVariants ==
    ("control" :> AV("1.0", 40, 30, 20, 10)) @@
    ("variant_a" :> AV("1.1", 35, 25, 30, 10))

\* ABTestConfig (default): variant_weights is a dict, kept in insertion order
DefaultABTest ==
    [enabled |-> FALSE, test_name |-> "",
     variant_weights |-> << [variant |-> "control", weight |-> 500],
                            [variant |-> "variant_a", weight |-> 500] >>,
     algorithm_variants |-> DefaultAlgorithmVariants]

\* LeadScoringConfig()
DefaultConfig ==
    [industry_weights |-> DefaultIndustryWeights,
     default_industry |-> DefaultIndustry,
     employee_size |-> DefaultEmployeeSize,
     contact_scoring |-> DefaultContactScoring,
     ab_testing |-> DefaultABTest,
     data_quality_weights |-> DefaultDataQualityWeights]

(***************************************************************************)
(* LeadScoringConfig.get_industry_weight                                   *)
(***************************************************************************)

\* the loop  for length in range(len(naics_code) - 1, 1, -1)
\* the loop over shorter codes, were it to stop before the 2-character code
RECURSIVE TruncationLookupAbove2(_, _, _)
TruncationLookupAbove2(c, naics_code, length) ==
    IF length <= 2 THEN c.default_industry
    ELSE IF SubSeq(naics_code, 1, length) \in DOMAIN c.industry_weights
         THEN c.industry_weights[SubSeq(naics_code, 1, length)]
         ELSE TruncationLookupAbove2(c, naics_code, length - 1)

RECURSIVE TruncationLookup(_, _, _)
TruncationLookup(c, naics_code, length) ==
    IF length <= 1 THEN c.default_industry
    ELSE IF SubSeq(naics_code, 1, length) \in DOMAIN c.industry_weights
         THEN c.industry_weights[SubSeq(naics_code, 1, length)]
         ELSE TruncationLookup(c, naics_code, length - 1)

get_industry_weight(c, naics_code) ==
    IF naics_code = None \/ naics_code = "" THEN c.default_industry
    ELSE IF naics_code \in DOMAIN c.industry_weights
         THEN c.industry_weights[naics_code]
         ELSE TruncationLookup(c, naics_code, Len(naics_code) - 1)

(***************************************************************************)
(* Python helpers: int(), str.rstrip("+"), str.split("-")                  *)
(* Strings are over the alphabet of digits, "+", "-" and letters.          *)
(***************************************************************************)

DigitVal ==
    ("0" :> 0) @@ ("1" :> 1) @@ ("2" :> 2) @@ ("3" :> 3) @@ ("4" :> 4) @@
    ("5" :> 5) @@ ("6" :> 6) @@ ("7" :> 7) @@ ("8" :> 8) @@ ("9" :> 9)

Char(s, i) == SubSeq(s, i, i)

IsDigits(s) == Len(s) > 0 /\ \A i \in 1..Len(s) : Char(s, i) \in DOMAIN DigitVal

RECURSIVE DigitsValue(_)
DigitsValue(s) ==
    IF Len(s) = 0 THEN 0
    ELSE DigitsValue(SubSeq(s, 1, Len(s) - 1)) * 10 + DigitVal[Char(s, Len(s))]

\* int(s) succeeds on digits with an optional leading "+"
IntOk(s) == IsDigits(s) \/ (Len(s) > 1 /\ Char(s, 1) = "+" /\ IsDigits(SubSeq(s, 2, Len(s))))
IntOf(s) == IF Char(s, 1) = "+" THEN DigitsValue(SubSeq(s, 2, Len(s))) ELSE DigitsValue(s)

Contains(s, ch) == \E i \in 1..Len(s) : Char(s, i) = ch
CountOf(s, ch) == Cardinality({i \in 1..Len(s) : Char(s, i) = ch})
FirstIndex(s, ch) == CHOOSE i \in 1..Len(s) : Char(s, i) = ch /\ \A j \in 1..(i - 1) : Char(s, j) # ch
EndsWith(s, ch) == Len(s) > 0 /\ Char(s, Len(s)) = ch

RECURSIVE RStrip(_, _)
RStrip(s, ch) == IF EndsWith(s, ch) THEN RStrip(SubSeq(s, 1, Len(s) - 1), ch) ELSE s

\* Python's int(x) of a float carried as n/d: truncation toward zero
Trunc(n, d) == IF n >= 0 THEN n \div d ELSE 0 - ((0 - n) \div d)

(***************************************************************************)
(* LeadScoringConfig._is_in_range / get_employee_size_config               *)
(***************************************************************************)

\* what _is_in_range reads off a key of the size table ("a-b", "a+" or "a")
ParseRange(range_str) ==
    IF EndsWith(range_str, "+")
    THEN [open |-> TRUE, lo |-> IntOf(SubSeq(range_str, 1, Len(range_str) - 1)),
          hi |-> 0]
    ELSE IF Contains(range_str, "-")
         THEN LET i == FirstIndex(range_str, "-")
              IN  [open |-> FALSE, lo |-> IntOf(SubSeq(range_str, 1, i - 1)),
                   hi |-> IntOf(SubSeq(range_str, i + 1, Len(range_str)))]
         ELSE [open |-> FALSE, lo |-> IntOf(range_str), hi |-> IntOf(range_str)]

\* employee_size.ranges of a configuration file: not sorted, overlapping, and
\* with a "1-10" bucket that does not score 20
TunedRanges == <<
    [range |-> "101-250", score |-> 85, bonus |-> 15, category |-> "medium"],
    [range |-> "1-10", score |-> 25, bonus |-> 5, category |-> "micro"],
    [range |-> "11-100", score |-> 50, bonus |-> 0, category |-> "small"],
    [range |-> "100-500", score |-> 80, bonus |-> 10, category |-> "medium-large"],
    [range |-> "501+", score |-> 40, bonus |-> 0, category |-> "large"] >>

\* the keys of the size tables, each parsed once
RangeKeys ==
    {DefaultRanges[i].range : i \in 1..Len(DefaultRanges)}
    \cup {TunedRanges[i].range : i \in 1..Len(TunedRanges)}
ParsedRanges == [k \in RangeKeys |-> ParseRange(k)]
ParsedRange(range_str) == ParsedRanges[range_str]

_is_in_range(count, range_str) ==
    LET r == ParsedRange(range_str)
    IN  IF r.open THEN count >= r.lo ELSE r.lo <= count /\ count <= r.hi

\* every table of the model has the key "1-10" the fallback reads
get_employee_size_config(c, employee_count) ==
    LET rs == c.employee_size.ranges
        hits == {i \in 1..Len(rs) : _is_in_range(employee_count, rs[i].range)}
    IN  IF hits # {}
        THEN rs[CHOOSE i \in hits : \A j \in hits : i <= j]
        ELSE CHOOSE r \in {rs[i] : i \in 1..Len(rs)} : r.range = "1-10"

(***************************************************************************)
(* LeadScoringService: component scorers                                   *)
(***************************************************************************)

\* truthiness of an Integer column (None is carried as 0: only truthiness is read)
Truthy(n) == n # 0
\* truthiness of a String column
TruthyStr(s) == s # None /\ s # ""

_get_employee_count(co) ==
    IF Truthy(co.employee_count_exact) THEN co.employee_count_exact
    ELSE IF Truthy(co.employee_count_min) /\ Truthy(co.employee_count_max)
    THEN (co.employee_count_min + co.employee_count_max) \div 2
    ELSE IF Truthy(co.employee_count_min) THEN co.employee_count_min
    ELSE IF TruthyStr(co.employee_range)
    THEN LET r == co.employee_range IN
         IF Contains(r, "-")
         THEN \* min_val, max_val = r.split("-"): ValueError unless one "-"
              IF CountOf(r, "-") # 1 THEN 0
              ELSE LET i == FirstIndex(r, "-")
                       lo == SubSeq(r, 1, i - 1)
                       hi == RStrip(SubSeq(r, i + 1, Len(r)), "+")
                   IN  IF IntOk(lo) /\ IntOk(hi)
                       THEN (IntOf(lo) + IntOf(hi)) \div 2 ELSE 0
         ELSE IF EndsWith(r, "+")
              THEN IF IntOk(RStrip(r, "+")) THEN IntOf(RStrip(r, "+")) ELSE 0
              ELSE IF IntOk(r) THEN IntOf(r) ELSE 0
    ELSE 0

\* base_score * weight without the cap at 100, in tenths
_calculate_industry_score_uncapped(c, co) ==
    LET industry_config == get_industry_weight(c, co.naics_code)
    IN  industry_config.base_score * industry_config.weight

\* in tenths
_calculate_industry_score(c, co) ==
    LET industry_config == get_industry_weight(c, co.naics_code)
    IN  Min(1000, industry_config.base_score * industry_config.weight)

in_optimal_range(c, employee_count) ==
    c.employee_size.optimal_min <= employee_count
    /\ employee_count <= c.employee_size.optimal_max

\* in tenths
_calculate_size_score(c, co) ==
    LET employee_count == _get_employee_count(co)
        size_config == get_employee_size_config(c, employee_count)
        bonus == size_config.bonus
                 + (IF in_optimal_range(c, employee_count)
                    THEN c.employee_size.bonus_points ELSE 0)
    IN  IF employee_count = 0 THEN 200
        ELSE Min(1000, 10 * (size_config.score + bonus))

\* len([c for c in contacts if c.<attr>])
CountWhere(cts, attr) == Cardinality({i \in 1..Len(cts) : cts[i][attr]})
IsDecisionMaker == "is_decision_maker"
IsExecutive == "is_executive"
IsHrRelated == "is_hr_related"
IsEmailVerified == "email_verified"

\* in tenths
\* the contact score, were it not capped
_calculate_contact_score_uncapped(c, cts) ==
    LET config == c.contact_scoring
        score == CountWhere(cts, IsDecisionMaker) * config.decision_maker_base_points
                 + CountWhere(cts, IsExecutive) * config.executive_bonus_points
                 + CountWhere(cts, IsHrRelated) * config.hr_benefits_bonus_points
                 + CountWhere(cts, IsEmailVerified) * config.verified_email_bonus
                 + (IF Len(cts) >= 3 THEN config.multiple_contacts_bonus ELSE 0)
    IN  IF Len(cts) = 0 THEN 0
        ELSE 10 * score

\* the contact score, were the executive bonus left out
_calculate_contact_score_no_executive(c, cts) ==
    LET config == c.contact_scoring
        score == CountWhere(cts, IsDecisionMaker) * config.decision_maker_base_points
                 + CountWhere(cts, IsHrRelated) * config.hr_benefits_bonus_points
                 + CountWhere(cts, IsEmailVerified) * config.verified_email_bonus
                 + (IF Len(cts) >= 3 THEN config.multiple_contacts_bonus ELSE 0)
    IN  IF Len(cts) = 0 THEN 0
        ELSE 10 * Min(config.max_contact_score, score)

_calculate_contact_score(c, cts) ==
    LET config == c.contact_scoring
        score == CountWhere(cts, IsDecisionMaker) * config.decision_maker_base_points
                 + CountWhere(cts, IsExecutive) * config.executive_bonus_points
                 + CountWhere(cts, IsHrRelated) * config.hr_benefits_bonus_points
                 + CountWhere(cts, IsEmailVerified) * config.verified_email_bonus
                 + (IF Len(cts) >= 3 THEN config.multiple_contacts_bonus ELSE 0)
    IN  IF Len(cts) = 0 THEN 0
        ELSE 10 * Min(config.max_contact_score, score)

has_complete_address(co) ==
    TruthyStr(co.street_address) /\ TruthyStr(co.city) /\ TruthyStr(co.state)

\* company.updated_at and company.updated_at > utcnow() - timedelta(days=30);
\* updated_at is <<>> (None) or <<day>>
recent_update(co, t) == co.updated_at # <<>> /\ co.updated_at[1] > t - 30

\* in tenths
_calculate_data_quality_score(c, co, t) ==
    LET weights == c.data_quality_weights
        score == (IF TruthyStr(co.website) THEN weights.has_website ELSE 0)
                 + (IF TruthyStr(co.phone) THEN weights.has_phone ELSE 0)
                 + (IF TruthyStr(co.email_domain) THEN weights.has_email_domain ELSE 0)
                 + (IF has_complete_address(co) THEN weights.has_address ELSE 0)
                 + (IF TruthyStr(co.ein) THEN weights.has_ein ELSE 0)
                 + (IF recent_update(co, t) THEN weights.recent_data ELSE 0)
    IN  10 * Min(20, score)

(***************************************************************************)
(* hashlib.md5: int(md5(s).hexdigest(), 16) % 1000 of the strings hashed   *)
(* for the company ids below (UUIDs), as Python computes them.             *)
(***************************************************************************)

Id1 == "00000000-0000-0000-0000-000000000001"
Id3 == "00000000-0000-0000-0000-000000000003"
Id5 == "00000000-0000-0000-0000-000000000005"
Id202 == "00000000-0000-0000-0000-0000000000ca"
Id1729 == "00000000-0000-0000-0000-0000000006c1"
Id119 == "00000000-0000-0000-0000-000000000077"

Md5Mod1000 ==
    (Id1 :> 263) @@ (Id3 :> 67) @@ (Id202 :> 0) @@ (Id1729 :> 500) @@
    (Id5 :> 848) @@ (("_" \o Id5) :> 499) @@ (("scoring_v2_" \o Id5) :> 675) @@
    (("_" \o Id1) :> 831) @@ (("_" \o Id3) :> 421) @@
    (("_" \o Id202) :> 253) @@ (("_" \o Id1729) :> 772) @@
    (("scoring_v2_" \o Id1) :> 263) @@ (("scoring_v2_" \o Id3) :> 992) @@
    (("scoring_v2_" \o Id202) :> 87) @@ (("scoring_v2_" \o Id1729) :> 345) @@
    (Id119 :> 514) @@ (("_" \o Id119) :> 568) @@ (("scoring_v2_" \o Id119) :> 0)

(***************************************************************************)
(* Variant resolvers                                                       *)
(***************************************************************************)

RECURSIVE SumWeights(_)
SumWeights(ws) == IF ws = <<>> THEN 0 ELSE Head(ws).weight + SumWeights(Tail(ws))

\* cumulative weight after the first i entries
Cumulative(ws, i) == SumWeights(SubSeq(ws, 1, i))

\* if normalized_hash <= cumulative_weight, with
\* normalized_hash = bucket / 1000.0 and cumulative_weight = cum / total
WalkTest(bucket, cum, total) == bucket * total <= cum * 1000

\* the for loop over dict.items(): the first entry that passes the test, 0 if none
WalkIndex(ws, bucket, total) ==
    LET hits == {i \in 1..Len(ws) : WalkTest(bucket, Cumulative(ws, i), total)}
    IN  IF hits = {} THEN 0 ELSE CHOOSE i \in hits : \A j \in hits : i <= j

\* LeadScoringService._get_algorithm_variant
_get_algorithm_variant(c, company_id) ==
    IF ~c.ab_testing.enabled THEN "control"
    ELSE LET ws == c.ab_testing.variant_weights
             total_weight == SumWeights(ws)
             i == WalkIndex(ws, Md5Mod1000[company_id], total_weight)
         IN  IF i # 0 THEN ws[i].variant ELSE "control"

\* ABTestTracker.get_variant_assignment; variant_configs is a dict whose keys
\* are kept as a list in insertion order
get_variant_assignment(company_id, tc) ==
    LET ws == tc.traffic_split
        hash_input == tc.test_name \o "_" \o company_id
        i == WalkIndex(ws, Md5Mod1000[hash_input], 1000)
    IN  IF i # 0 THEN ws[i].variant ELSE tc.variant_configs[1]

\* LeadScoringService._get_variant_config
_get_variant_config(c, variant) ==
    LET variants == c.ab_testing.algorithm_variants
    IN  IF variant \in DOMAIN variants THEN variants[variant] ELSE variants["control"]

(***************************************************************************)
(* LeadScore.calculate_grade                                               *)
(***************************************************************************)

\* the ladder, were its top rung exclusive
calculate_grade_exclusive(score) ==
    IF score > 95 THEN "A+"
    ELSE IF score >= 90 THEN "A"
    ELSE IF score >= 85 THEN "A-"
    ELSE IF score >= 80 THEN "B+"
    ELSE IF score >= 75 THEN "B"
    ELSE IF score >= 70 THEN "B-"
    ELSE IF score >= 65 THEN "C+"
    ELSE IF score >= 60 THEN "C"
    ELSE IF score >= 55 THEN "C-"
    ELSE "D"

calculate_grade(score) ==
    IF score >= 95 THEN "A+"
    ELSE IF score >= 90 THEN "A"
    ELSE IF score >= 85 THEN "A-"
    ELSE IF score >= 80 THEN "B+"
    ELSE IF score >= 75 THEN "B"
    ELSE IF score >= 70 THEN "B-"
    ELSE IF score >= 65 THEN "C+"
    ELSE IF score >= 60 THEN "C"
    ELSE IF score >= 55 THEN "C-"
    ELSE "D"

(***************************************************************************)
(* LeadScoringService.calculate_score and what it generates.               *)
(* An f-string is carried as its fixed text, without the interpolated      *)
(* value.                                                                  *)
(***************************************************************************)

When(cond, line) == IF cond THEN <<line>> ELSE <<>>

_generate_scoring_factors(c, t, co, cts, industry_score, size_score, contact_score, data_quality_score) ==
    [industry |->
        [naics_code |-> co.naics_code,
         base_score |-> get_industry_weight(c, co.naics_code).base_score,
         weight |-> get_industry_weight(c, co.naics_code).weight,
         final_score |-> industry_score,
         risk_level |-> get_industry_weight(c, co.naics_code).risk_level],
     size |->
        [employee_count |-> _get_employee_count(co),
         employee_range |-> co.employee_range,
         size_category |-> get_employee_size_config(c, _get_employee_count(co)).category,
         base_score |-> get_employee_size_config(c, _get_employee_count(co)).score,
         bonus_points |-> get_employee_size_config(c, _get_employee_count(co)).bonus,
         final_score |-> size_score,
         in_optimal_range |-> in_optimal_range(c, _get_employee_count(co))],
     contacts |->
        [total_contacts |-> Len(cts),
         decision_makers |-> CountWhere(cts, IsDecisionMaker),
         executives |-> CountWhere(cts, IsExecutive),
         hr_contacts |-> CountWhere(cts, IsHrRelated),
         verified_emails |-> CountWhere(cts, IsEmailVerified),
         final_score |-> contact_score],
     data_quality |->
        [has_website |-> TruthyStr(co.website),
         has_phone |-> TruthyStr(co.phone),
         has_email_domain |-> TruthyStr(co.email_domain),
         has_complete_address |-> has_complete_address(co),
         has_ein |-> TruthyStr(co.ein),
         recent_update |-> recent_update(co, t),
         final_score |-> data_quality_score]]

QualityFlags ==
    {"has_website", "has_phone", "has_email_domain", "has_complete_address",
     "has_ein", "recent_update"}

_generate_score_reasons(scoring_factors) ==
    LET industry == scoring_factors.industry
        size == scoring_factors.size
        cs == scoring_factors.contacts
        quality == scoring_factors.data_quality
        quality_score == Cardinality({k \in QualityFlags : quality[k]})
    IN  (IF industry.risk_level = "low" THEN <<"Low-risk industry">>
         ELSE IF industry.risk_level = "high" THEN <<"High-risk industry">>
         ELSE <<>>)
        \o (IF size.in_optimal_range THEN <<"Optimal company size">>
            ELSE IF size.employee_count > 1000
            THEN <<"Large company size may indicate complex decision-making">>
            ELSE IF size.employee_count < 50
            THEN <<"Small company size may limit insurance budget">>
            ELSE <<>>)
        \o When(cs.decision_makers > 0, "Found decision-maker contact(s)")
        \o When(cs.executives > 0, "Found executive contact(s)")
        \o When(cs.hr_contacts > 0, "Found HR/benefits contact(s)")
        \o When(cs.total_contacts = 0,
                "No contacts found - may require additional prospecting")
        \o (IF quality_score >= 4
            THEN <<"High data quality with complete company information">>
            ELSE IF quality_score <= 2
            THEN <<"Limited data quality - may need enrichment">>
            ELSE <<>>)

\* total is in thousandths; the parts are joined by " | " in the code
_generate_recommendations(co, total) ==
    LET employee_count == _get_employee_count(co)
    IN  (IF total >= 80000
         THEN <<"High-priority lead - prioritize for immediate outreach",
                "Consider direct executive outreach given strong fit">>
         ELSE IF total >= 60000
         THEN <<"Qualified lead - include in regular nurturing campaign",
                "Consider industry-specific messaging approach">>
         ELSE <<"Lower priority - may benefit from additional enrichment",
                "Consider automated nurturing sequence first">>)
        \o When(100 <= employee_count /\ employee_count <= 500,
                "Optimal size for group health insurance - emphasize cost savings")
        \o When(co.contacts = <<>>,
                "High priority: Find decision-maker contacts before outreach")
        \o When(~TruthyStr(co.website),
                "Research company website and online presence")

\* the four products and their sum in exact arithmetic, in thousandths
ExactWeightedSum(variant_config, industry_score, size_score, contact_score, data_quality_score) ==
    industry_score * variant_config.industry_weight
    + size_score * variant_config.size_weight
    + contact_score * variant_config.contact_weight
    + data_quality_score * variant_config.data_quality_weight

\* The weights and the component scores (industry, size, contact, data
\* quality; hundredths, then tenths) on which the products and their sum, as
\* the IEEE-754 doubles Python computes, end one unit in the last place below
\* a whole number that the exact sum reaches: 98.0 * 0.35 + 30.0 * 0.25
\* + 18.0 * 0.3 + 18.0 * 0.1 is 48.99999999999999, since 18.0 * 0.3 is
\* 5.3999999999999995.  Every other input of this model's specifications has
\* a double sum with the integer part of the exact sum.
DoubleSumShortfalls ==
    { <<35, 25, 30, 10, 980, s, 180, 180>> : s \in {300, 500, 700, 900} }

\* sum(weighted_scores.values()), in thousandths rounded down; the sum is a
\* double, within 1e-12 of the exact sum
WeightedSum(variant_config, industry_score, size_score, contact_score, data_quality_score) ==
    ExactWeightedSum(variant_config, industry_score, size_score, contact_score,
                     data_quality_score)
    - (IF <<variant_config.industry_weight, variant_config.size_weight,
            variant_config.contact_weight, variant_config.data_quality_weight,
            industry_score, size_score, contact_score, data_quality_score>>
          \in DoubleSumShortfalls
       THEN 1 ELSE 0)

\* the weighted sum, were it not clamped
TotalScoreUnclamped(weighted_sum) == weighted_sum

\* total_score = min(100, sum(...)), in thousandths
TotalScore(weighted_sum) == Min(100000, weighted_sum)

\* the variant calculate_score works with
ResolveVariant(c, co, ov) ==
    IF TruthyStr(ov) THEN ov ELSE _get_algorithm_variant(c, co.id)

(***************************************************************************)
(* Exceptions: what calculate_score's callees raise.  calculate_score      *)
(* itself logs and re-raises.                                              *)
(***************************************************************************)

\* the exception the parsing of employee_range ends with, None if none:
\* ValueError from the unpacking of split("-") or from int()
ParseError(co) ==
    IF Truthy(co.employee_count_exact) \/ Truthy(co.employee_count_min)
       \/ ~TruthyStr(co.employee_range)
    THEN None
    ELSE LET r == co.employee_range IN
         IF Contains(r, "-")
         THEN IF CountOf(r, "-") # 1 THEN "ValueError"
              ELSE LET i == FirstIndex(r, "-")
                   IN  IF IntOk(SubSeq(r, 1, i - 1))
                          /\ IntOk(RStrip(SubSeq(r, i + 1, Len(r)), "+"))
                       THEN None ELSE "ValueError"
         ELSE IF EndsWith(r, "+")
              THEN IF IntOk(RStrip(r, "+")) THEN None ELSE "ValueError"
              ELSE IF IntOk(r) THEN None ELSE "ValueError"

\* _get_employee_count, were its try without the except clause
_get_employee_count_raises_uncaught(co) == ParseError(co) # None

\* except (ValueError, AttributeError): pass
_get_employee_count_raises(co) ==
    ParseError(co) \notin {None, "ValueError", "AttributeError"}

\* self.employee_size.ranges["1-10"]: KeyError for a table without the key
get_employee_size_config_raises(c, employee_count) ==
    LET rs == c.employee_size.ranges
    IN  /\ \A i \in 1..Len(rs) : ~_is_in_range(employee_count, rs[i].range)
        /\ \A i \in 1..Len(rs) : rs[i].range # "1-10"

\* variants["control"]: KeyError for a table without control
_get_variant_config_raises(c, variant) ==
    /\ variant \notin DOMAIN c.ab_testing.algorithm_variants
    /\ "control" \notin DOMAIN c.ab_testing.algorithm_variants

calculate_score_raises(c, co, ov) ==
    \/ _get_variant_config_raises(c, ResolveVariant(c, co, ov))
    \/ _get_employee_count_raises(co)
    \/ get_employee_size_config_raises(c, _get_employee_count(co))

\* cts is <<>> for contacts=None and <<list>> for a list
calculate_score(c, t, co, cts, ov) ==
    LET variant == ResolveVariant(c, co, ov)
        variant_config == _get_variant_config(c, variant)
        contact_list == IF cts = <<>> THEN co.contacts ELSE cts[1]
        industry_score == _calculate_industry_score(c, co)
        size_score == _calculate_size_score(c, co)
        contact_score == _calculate_contact_score(c, contact_list)
        data_quality_score == _calculate_data_quality_score(c, co, t)
        total_score == TotalScore(WeightedSum(variant_config, industry_score,
                           size_score, contact_score, data_quality_score))
        scoring_factors == _generate_scoring_factors(c, t, co, contact_list,
                               industry_score, size_score, contact_score,
                               data_quality_score)
    IN  [company_id |-> co.id,
         total_score |-> Trunc(total_score, 1000),
         score_grade |-> calculate_grade(Trunc(total_score, 1000)),
         industry_score |-> Trunc(industry_score, 10),
         size_score |-> Trunc(size_score, 10),
         location_score |-> 0,
         data_quality_score |-> Trunc(data_quality_score, 10),
         engagement_score |-> Trunc(contact_score, 10),
         scoring_factors |-> scoring_factors,
         industry_risk_level |-> get_industry_weight(c, co.naics_code).risk_level,
         industry_multiplier |-> get_industry_weight(c, co.naics_code).weight,
         employee_count_used |-> _get_employee_count(co),
         size_category |-> get_employee_size_config(c, _get_employee_count(co)).category,
         score_reasons |-> _generate_score_reasons(scoring_factors),
         recommendations |-> _generate_recommendations(co, total_score),
         scoring_version |-> variant_config.version,
         created_by |-> "algorithm_" \o variant]

(***************************************************************************)
(* Configurations the service is built with: score_leads.py builds the     *)
(* default LeadScoringConfig or one from the fields of a JSON file.        *)
(***************************************************************************)

\* the default configuration with the A/B test switched on
ABConfig ==
    [DefaultConfig EXCEPT !.ab_testing.enabled = TRUE,
                          !.ab_testing.test_name = "scoring_v2"]

\* a configuration file: a third variant whose component weights sum to 1.5,
\* a three-way traffic split, and industry keys that are prefixes of each other
CustomConfig ==
    [DefaultConfig EXCEPT
        !.industry_weights =
            ("62" :> IW("62", 15, 60, "medium")) @@
            ("6211" :> IW("6211", 19, 90, "low")) @@ DefaultIndustryWeights,
        !.ab_testing =
            [enabled |-> TRUE, test_name |-> "scoring_v2",
             variant_weights |-> << [variant |-> "variant_b", weight |-> 250],
                                    [variant |-> "control", weight |-> 500],
                                    [variant |-> "variant_a", weight |-> 250] >>,
             algorithm_variants |->
                ("variant_b" :> AV("2.0", 60, 40, 30, 20)) @@ DefaultAlgorithmVariants]]

Configs == {DefaultConfig, ABConfig, CustomConfig}

\* a configuration file with its own size table, contact points and
\* data-quality weights (their sum exceeds 20)
TunedConfig ==
    [DefaultConfig EXCEPT
        !.employee_size.ranges = TunedRanges,
        !.contact_scoring.max_contact_score = 25,
        !.data_quality_weights =
            [has_website |-> 10, has_phone |-> 10, has_email_domain |-> 3,
             has_address |-> 3, has_ein |-> 2, recent_data |-> 2]]

\* a configuration file whose data-quality weights penalise two flags
PenaltyConfig ==
    [DefaultConfig EXCEPT
        !.data_quality_weights =
            [has_website |-> -5, has_phone |-> 5, has_email_domain |-> 3,
             has_address |-> 3, has_ein |-> -2, recent_data |-> 2]]

ComponentConfigs == {DefaultConfig, TunedConfig, PenaltyConfig}

\* a configuration file that moves the optimal range to 50..200 employees
OptimalRangeConfig ==
    [DefaultConfig EXCEPT !.employee_size.optimal_min = 50,
                          !.employee_size.optimal_max = 200]

\* the configurations calculate_score is run with
ScoringConfigs == Configs \cup {OptimalRangeConfig}

(***************************************************************************)
(* Inputs of calculate_score                                               *)
(***************************************************************************)

\* longest contact list passed
MaxContacts == 3
\* the day the run starts on
StartDay == 40
\* days the clock may advance
MaxDays == 2

CT(dm, ex, hr, ve) ==
    [is_decision_maker |-> dm, is_executive |-> ex, is_hr_related |-> hr,
     email_verified |-> ve]

\* a verified-email executive decision-maker, not HR
ExecutiveContact == CT(TRUE, TRUE, FALSE, TRUE)
\* a verified executive HR decision-maker
AllFlagsContact == CT(TRUE, TRUE, TRUE, TRUE)

Repeat(x, n) == [i \in 1..n |-> x]

ContactLists ==
    {Repeat(k, n) : k \in {ExecutiveContact, AllFlagsContact}, n \in 0..MaxContacts}

NaicsInputs == {None, "621111", "236220", "541511", "99999999"}

EC(exact, lo, hi, range) ==
    [employee_count_exact |-> exact, employee_count_min |-> lo,
     employee_count_max |-> hi, employee_range |-> range]

\* unknown, exact, huge, a min-max pair, a range text
EmployeeInputs ==
    {EC(0, 0, 0, None), EC(150, 0, 0, None), EC(10000000, 0, 0, None),
     EC(0, 40, 60, None), EC(0, 0, 0, "251-500")}

QC(w, p, e, st, ci, s, ein, upd) ==
    [website |-> w, phone |-> p, email_domain |-> e, street_address |-> st,
     city |-> ci, state |-> s, ein |-> ein, updated_at |-> upd]

\* completeness of the record; updated_at is None, today, or 29 days ago
QualityInputs ==
    {QC("w", "p", "e", "st", "ci", "s", "ein", <<StartDay>>),
     QC("w", "p", "e", "st", "ci", "s", "ein", <<>>),
     QC("w", "p", "e", "st", "ci", "s", None, <<StartDay>>),
     QC("w", "p", "e", "st", "ci", "s", None, <<StartDay - 29>>),
     QC(None, "", None, "st", None, "s", None, <<>>)}

CompanyOf(id, naics, ec, qc, cts) ==
    [id |-> id, naics_code |-> naics,
     employee_count_exact |-> ec.employee_count_exact,
     employee_count_min |-> ec.employee_count_min,
     employee_count_max |-> ec.employee_count_max,
     employee_range |-> ec.employee_range,
     website |-> qc.website, phone |-> qc.phone, email_domain |-> qc.email_domain,
     street_address |-> qc.street_address, city |-> qc.city, state |-> qc.state,
     ein |-> qc.ein, updated_at |-> qc.updated_at, contacts |-> cts]

\* company.contacts (the relationship) beside the contacts argument
ContactPairs ==
    {[stored |-> st, arg |-> a] :
        st \in {<<>>, <<ExecutiveContact>>}, a \in {<<>>, << <<>> >>}}
    \cup {[stored |-> <<ExecutiveContact>>, arg |-> <<l>>] :
            l \in ContactLists \ {<<>>}}

\* the algorithm_variant argument beside the company id
VariantInputs ==
    {[id |-> id, override |-> None] : id \in {Id3, Id1729, Id5}}
    \cup {[id |-> Id3, override |-> ov] :
            ov \in {"control", "variant_a", "variant_b", "variant_x"}}

(***************************************************************************)
(* Specification of the scoring engine: one caller of calculate_score      *)
(***************************************************************************)

\* what the variables hold in a specification that does not use them
IdleScore ==
    /\ company = None /\ contacts = <<>> /\ override = None /\ result = <<>>
IdleIndustry == naics_in = None /\ industry_out = <<>>
IdleVariant ==
    /\ test_config = None /\ engine_variant = None /\ tracker_variant = None
IdleGrade ==
    /\ score_in = 0 /\ grade_out = None /\ prev_score = 0 /\ prev_grade = None

IdleComponent == size_out = <<>> /\ contact_out = <<>> /\ quality_out = <<>>

IdleConstruct == config_in = [via |-> None, config |-> <<>>]

IdleWorker ==
    /\ queue = <<>> /\ sync_msgs = {} /\ returned = <<>> /\ threshold = 0
    /\ deliveries = 0 /\ fault = "none" /\ dispositions = <<>>

IdleAnalyzer == ab_rows = <<>> /\ ab_result = <<>>

IdleConcurrent == records = <<>> /\ calls = <<>>

IdleBatch ==
    /\ lead_scores = {} /\ lead_score_of = <<>> /\ batch_ids = <<>>
    /\ selected = {} /\ failing = {} /\ batch_out = <<>> /\ batches = 0

Init ==
    /\ cfg \in ScoringConfigs
    /\ now = StartDay
    /\ pc = "start"
    /\ \E vi \in VariantInputs, naics \in NaicsInputs, ec \in EmployeeInputs,
          qc \in QualityInputs, cp \in ContactPairs :
            /\ company = CompanyOf(vi.id, naics, ec, qc, cp.stored)
            /\ contacts = cp.arg
            /\ override = vi.override
    /\ result = <<>>
    /\ IdleIndustry /\ IdleVariant /\ IdleGrade /\ IdleBatch /\ IdleComponent /\ IdleConstruct
    /\ IdleWorker /\ IdleAnalyzer /\ IdleConcurrent

CalculateScore ==
    /\ pc = "start"
    /\ IF calculate_score_raises(cfg, company, override)
       THEN result' = <<>> /\ pc' = "raised"
       ELSE /\ result' = <<calculate_score(cfg, now, company, contacts, override)>>
            /\ pc' = "scored"
    /\ UNCHANGED <<cfg, workerVars, analyzerVars, concurrentVars, constructVars, componentVars, now, company, contacts,
                   override, industryVars, variantVars, gradeVars, batchVars>>

Next == CalculateScore

Spec == Init /\ [][Next]_vars

(***************************************************************************)
(* Specification of the industry table: one caller of get_industry_weight  *)
(***************************************************************************)

Prefixes(code) == {SubSeq(code, 1, n) : n \in 0..Len(code)}

\* None, the empty code, and every prefix of a few codes
NaicsCodes ==
    {None} \cup UNION {Prefixes(code) :
        code \in {"621111", "236220", "000000", "99999999", "541512", "722511"}}

InitIndustry ==
    /\ cfg \in Configs
    /\ now = StartDay
    /\ pc = "start"
    /\ naics_in \in NaicsCodes
    /\ industry_out = <<>>
    /\ IdleScore /\ IdleVariant /\ IdleGrade /\ IdleBatch /\ IdleComponent /\ IdleConstruct
    /\ IdleWorker /\ IdleAnalyzer /\ IdleConcurrent

GetIndustryWeight ==
    /\ pc = "start"
    /\ industry_out' = <<get_industry_weight(cfg, naics_in)>>
    /\ pc' = "looked up"
    /\ UNCHANGED <<cfg, workerVars, analyzerVars, concurrentVars, constructVars, componentVars, now, naics_in, scoreVars, variantVars, gradeVars, batchVars>>

NextIndustry == GetIndustryWeight

SpecIndustry == InitIndustry /\ [][NextIndustry]_vars

(***************************************************************************)
(* Specification of the variant resolvers: the engine's and the tracker's  *)
(* assignment of one company under the same traffic weights                *)
(***************************************************************************)

TW(v1, w1, v2, w2) == << [variant |-> v1, weight |-> w1], [variant |-> v2, weight |-> w2] >>

TrafficSplits ==
    {TW("control", 500, "variant_a", 500), TW("control", 250, "variant_a", 750),
     TW("variant_a", 0, "control", 1000), TW("control", 750, "variant_a", 250),
     TW("variant_a", 491, "control", 500)}

CompanyIds == {Id1, Id3, Id5, Id202, Id1729, Id119}

\* list(dict.keys()) of the variant configurations
KeysOfDefaultVariants == <<"control", "variant_a">>

InitVariant ==
    /\ \E split \in TrafficSplits, enabled \in BOOLEAN, name \in {"", "scoring_v2"} :
        /\ cfg = [DefaultConfig EXCEPT !.ab_testing.enabled = enabled,
                                       !.ab_testing.test_name = name,
                                       !.ab_testing.variant_weights = split]
        /\ test_config = [test_name |-> name, traffic_split |-> split,
                          variant_configs |-> KeysOfDefaultVariants]
    /\ now = StartDay
    /\ pc = "start"
    /\ \E id \in CompanyIds :
        company = CompanyOf(id, None, EC(0, 0, 0, None),
                            QC(None, None, None, None, None, None, None, <<>>), <<>>)
    /\ contacts = <<>> /\ override = None /\ result = <<>>
    /\ engine_variant = None /\ tracker_variant = None
    /\ IdleIndustry /\ IdleGrade /\ IdleBatch /\ IdleComponent /\ IdleConstruct
    /\ IdleWorker /\ IdleAnalyzer /\ IdleConcurrent

GetAlgorithmVariant ==
    /\ engine_variant = None
    /\ engine_variant' = _get_algorithm_variant(cfg, company.id)
    /\ UNCHANGED <<cfg, workerVars, analyzerVars, concurrentVars, constructVars, componentVars, now, pc, scoreVars, industryVars, test_config,
                   tracker_variant, gradeVars, batchVars>>

GetVariantAssignment ==
    /\ tracker_variant = None
    /\ tracker_variant' = get_variant_assignment(company.id, test_config)
    /\ UNCHANGED <<cfg, workerVars, analyzerVars, concurrentVars, constructVars, componentVars, now, pc, scoreVars, industryVars, test_config,
                   engine_variant, gradeVars, batchVars>>

NextVariant == GetAlgorithmVariant \/ GetVariantAssignment

SpecVariant == InitVariant /\ [][NextVariant]_vars

(***************************************************************************)
(* Specification of the grade ladder: two calls of calculate_grade         *)
(***************************************************************************)

\* largest score passed to calculate_grade
MaxScore == 100

InitGrade ==
    /\ cfg = DefaultConfig
    /\ now = StartDay
    /\ pc = "start"
    /\ score_in \in 0..MaxScore
    /\ grade_out = None /\ prev_score = 0 /\ prev_grade = None
    /\ IdleScore /\ IdleIndustry /\ IdleVariant /\ IdleBatch /\ IdleComponent /\ IdleConstruct
    /\ IdleWorker /\ IdleAnalyzer /\ IdleConcurrent

CalculateGrade ==
    /\ pc = "start"
    /\ grade_out' = calculate_grade(score_in)
    /\ pc' = "graded"
    /\ UNCHANGED <<cfg, workerVars, analyzerVars, concurrentVars, constructVars, componentVars, now, score_in, prev_score, prev_grade, scoreVars,
                   industryVars, variantVars, batchVars>>

CalculateGradeAgain ==
    /\ pc = "graded"
    /\ \E s \in 0..MaxScore :
        /\ score_in' = s
        /\ grade_out' = calculate_grade(s)
    /\ prev_score' = score_in
    /\ prev_grade' = grade_out
    /\ pc' = "graded twice"
    /\ UNCHANGED <<cfg, workerVars, analyzerVars, concurrentVars, constructVars, componentVars, now, scoreVars, industryVars, variantVars, batchVars>>

NextGrade == CalculateGrade \/ CalculateGradeAgain

SpecGrade == InitGrade /\ [][NextGrade]_vars

(***************************************************************************)
(* Specification of the component scorers: one caller of each of           *)
(* _calculate_size_score, _calculate_contact_score and                     *)
(* _calculate_data_quality_score                                           *)
(***************************************************************************)

\* length of the long contact list
ManyContacts == 1000

\* employee counts around every edge of the size tables, and beyond
SizeCounts ==
    {-3, 0, 1, 10, 11, 50, 51, 99, 100, 101, 250, 251, 500, 501, 1000, 1001,
     5000, 5001, 10000000}

SizeInputs ==
    {EC(n, 0, 0, None) : n \in SizeCounts}
    \cup {EC(0, 40, 60, None), EC(0, 7, 0, None), EC(0, 0, 9, None),
          EC(0, 0, 0, "251-500"), EC(0, 0, 0, "5000+"), EC(0, 0, 0, "120"),
          EC(0, 0, 0, "abc"), EC(0, 0, 0, "1-2-3"), EC(0, 0, 0, "")}

\* every single contact, uniform lists up to the bound, a mixed list of
\* three, and the long list
ContactInputs ==
    {<<CT(dm, ex, hr, ve)>> : dm \in BOOLEAN, ex \in BOOLEAN, hr \in BOOLEAN, ve \in BOOLEAN}
    \cup ContactLists
    \cup {<<CT(TRUE, FALSE, FALSE, FALSE), CT(FALSE, FALSE, TRUE, TRUE),
            CT(FALSE, TRUE, FALSE, FALSE)>>,
          Repeat(CT(FALSE, FALSE, FALSE, FALSE), 3),
          Repeat(AllFlagsContact, ManyContacts)}

\* every combination of the quality fields; updated_at None, today, 29 and
\* 30 days ago
AllQualityInputs ==
    {QC(w, p, e, st, "ci", s, ein, upd) :
        w \in {None, "w"}, p \in {"", "p"}, e \in {None, "e"},
        st \in {None, "st"}, s \in {None, "s"}, ein \in {None, "ein"},
        upd \in {<<>>, <<StartDay>>, <<StartDay - 29>>, <<StartDay - 30>>}}

NoSize == EC(0, 0, 0, None)
NoQuality == QC(None, None, None, None, None, None, None, <<>>)

InitComponent ==
    /\ cfg \in ComponentConfigs
    /\ now = StartDay
    /\ pc = "start"
    /\ \/ \E ec \in SizeInputs :
            company = CompanyOf(Id1, None, ec, NoQuality, <<>>) /\ contacts = << <<>> >>
       \/ \E l \in ContactInputs :
            company = CompanyOf(Id1, None, NoSize, NoQuality, <<>>) /\ contacts = <<l>>
       \/ \E qc \in AllQualityInputs :
            company = CompanyOf(Id1, None, NoSize, qc, <<>>) /\ contacts = << <<>> >>
    /\ override = None /\ result = <<>>
    /\ size_out = <<>> /\ contact_out = <<>> /\ quality_out = <<>>
    /\ IdleIndustry /\ IdleVariant /\ IdleGrade /\ IdleBatch /\ IdleConstruct
    /\ IdleWorker /\ IdleAnalyzer /\ IdleConcurrent

CalculateSizeScore ==
    /\ size_out = <<>>
    /\ size_out' = <<_calculate_size_score(cfg, company)>>
    /\ UNCHANGED <<cfg, workerVars, analyzerVars, concurrentVars, constructVars, now, pc, scoreVars, industryVars, variantVars, gradeVars,
                   batchVars, contact_out, quality_out>>

CalculateContactScore ==
    /\ contact_out = <<>>
    /\ contact_out' = <<_calculate_contact_score(cfg, contacts[1])>>
    /\ UNCHANGED <<cfg, workerVars, analyzerVars, concurrentVars, constructVars, now, pc, scoreVars, industryVars, variantVars, gradeVars,
                   batchVars, size_out, quality_out>>

CalculateDataQualityScore ==
    /\ quality_out = <<>>
    /\ quality_out' = <<_calculate_data_quality_score(cfg, company, now)>>
    /\ UNCHANGED <<cfg, workerVars, analyzerVars, concurrentVars, constructVars, now, pc, scoreVars, industryVars, variantVars, gradeVars,
                   batchVars, size_out, contact_out>>

NextComponent ==
    CalculateSizeScore \/ CalculateContactScore \/ CalculateDataQualityScore

SpecComponent == InitComponent /\ [][NextComponent]_vars

(***************************************************************************)
(* Specification of the engine from its construction on: a caller builds   *)
(* the service, directly or through score_companies, and scores a company  *)
(* whose optional data is missing or malformed                             *)
(***************************************************************************)

\* json.load of a config file holding {}
EmptyFile == <<>>

\* json.load of a config file naming three fields
TunedFile ==
    [employee_size |-> TunedConfig.employee_size,
     contact_scoring |-> TunedConfig.contact_scoring,
     data_quality_weights |-> TunedConfig.data_quality_weights]

\* LeadScoringConfig(**config_data): a field not named takes its default
LeadScoringConfigFrom(config_data) ==
    [f \in DOMAIN DefaultConfig |->
        IF f \in DOMAIN config_data THEN config_data[f] ELSE DefaultConfig[f]]

\* LeadScoringService(config) with config None or given, and
\* score_companies(config_file) with no file or a file's contents
ConfigInputs ==
    {[via |-> "LeadScoringService", config |-> c] :
        c \in {<<>>, <<DefaultConfig>>, <<TunedConfig>>}}
    \cup {[via |-> "score_companies", config |-> f] :
        f \in {<<>>, <<EmptyFile>>, <<TunedFile>>}}

\* missing, malformed, zero and negative employee data
SparseEmployeeInputs ==
    {EC(0, 0, 0, None), EC(-3, 0, 0, None), EC(0, -40, 60, None), EC(0, 0, 9, None),
     EC(0, 0, 0, ""), EC(0, 0, 0, "abc"), EC(0, 0, 0, "1-2-3"), EC(0, 0, 0, "50-"),
     EC(0, 0, 0, "+"), EC(0, 0, 0, "-"), EC(0, 0, 0, "5000+"), EC(0, 0, 0, "11-50")}

SparseContactPairs ==
    {[stored |-> <<>>, arg |-> <<>>], [stored |-> <<>>, arg |-> << <<>> >>],
     [stored |-> <<ExecutiveContact>>, arg |-> <<>>]}

InitEngine ==
    /\ config_in \in ConfigInputs
    /\ cfg = <<>>
    /\ now = StartDay
    /\ pc = "new"
    /\ \E naics \in {None, "", "621111"}, ec \in SparseEmployeeInputs,
          qc \in {NoQuality, QC("w", "p", "e", "st", "ci", "s", "ein", <<StartDay>>)},
          cp \in SparseContactPairs, ov \in {None, "variant_x"} :
            /\ company = CompanyOf(Id3, naics, ec, qc, cp.stored)
            /\ contacts = cp.arg
            /\ override = ov
    /\ result = <<>>
    /\ IdleIndustry /\ IdleVariant /\ IdleGrade /\ IdleBatch /\ IdleComponent
    /\ IdleWorker /\ IdleAnalyzer /\ IdleConcurrent

\* LeadScoringService.__init__: self.config = config or LeadScoringConfig()
Construct ==
    /\ pc = "new"
    /\ config_in.via = "LeadScoringService"
    /\ cfg' = IF config_in.config = <<>> THEN DefaultConfig ELSE config_in.config[1]
    /\ pc' = "start"
    /\ UNCHANGED <<workerVars, analyzerVars, concurrentVars, constructVars, componentVars, now, scoreVars, industryVars,
                   variantVars, gradeVars, batchVars>>

\* score_companies: load the configuration, build the service
LoadConfiguration ==
    /\ pc = "new"
    /\ config_in.via = "score_companies"
    /\ cfg' = IF config_in.config = <<>> THEN DefaultConfig
              ELSE LeadScoringConfigFrom(config_in.config[1])
    /\ pc' = "start"
    /\ UNCHANGED <<workerVars, analyzerVars, concurrentVars, constructVars, componentVars, now, scoreVars, industryVars,
                   variantVars, gradeVars, batchVars>>

NextEngine == Construct \/ LoadConfiguration \/ CalculateScore

SpecEngine == InitEngine /\ [][NextEngine]_vars

(***************************************************************************)
(* Specification of batch scoring: score_companies runs                    *)
(* batch_score_companies on the database and commits what it returns       *)
(***************************************************************************)

\* batches run
MaxBatches == 2

\* table companies, in the order the rows come back
DbOrder == <<Id1, Id3, Id5>>
DbIds == {DbOrder[i] : i \in 1..Len(DbOrder)}

DbCompany(id) ==
    IF id = Id1
    THEN CompanyOf(Id1, "621111", EC(150, 0, 0, None),
                   QC("w", "p", "e", "st", "ci", "s", None, <<StartDay>>),
                   <<ExecutiveContact>>)
    ELSE IF id = Id3
    THEN CompanyOf(Id3, "236220", EC(0, 40, 60, None),
                   QC(None, "", None, "st", None, "s", None, <<>>), <<>>)
    ELSE CompanyOf(Id5, None, EC(10000000, 0, 0, None),
                   QC("w", "p", "e", "st", "ci", "s", "ein", <<StartDay - 29>>),
                   Repeat(AllFlagsContact, 3))

\* a row of lead_scores: session.add(lead_score), created_at defaults to utcnow
Row(n, ls, t) ==
    [id |-> n, company_id |-> ls.company_id, created_at |-> t,
     total_score |-> ls.total_score, created_by |-> ls.created_by]

\* the rows of query.outerjoin(LeadScore): <<company id, lead score row id>>,
\* with row id 0 for a company without lead scores
JoinedRows(ls) ==
    {<<c, 0>> : c \in {d \in DbIds : \A r \in ls : r.company_id # d}}
    \cup {<<r.company_id, r.id>> : r \in ls}

CreatedAt(ls, n) == (CHOOSE r \in ls : r.id = n).created_at

\* (LeadScore.created_at.is_(None)) | (LeadScore.created_at < utcnow() - 7 days)
StaleFilter(ls, t, row) == row[2] = 0 \/ CreatedAt(ls, row[2]) < t - 7

\* the rows of the query before .limit(); ids is <<>> for company_ids=None
QueryRows(ls, t, ids) ==
    IF ids # <<>>
    THEN {<<c, 0>> : c \in {d \in DbIds : \E i \in 1..Len(ids) : ids[i] = d}}
    ELSE {row \in JoinedRows(ls) : StaleFilter(ls, t, row)}

\* .limit(limit) without ORDER BY: any limit of the rows
LimitedRows(rows, limit) ==
    {chosen \in SUBSET rows : Cardinality(chosen) = Min(limit, Cardinality(rows))}

\* .all() on a single entity: each Company once
CompaniesOf(rows) == {row[1] : row \in rows}

InOrder(cs) == SelectSeq(DbOrder, LAMBDA c : c \in cs)

\* the for loop, were an exception to end it
RECURSIVE BatchLoopAborting(_, _, _, _)
BatchLoopAborting(c, t, todo, fails) ==
    IF todo = <<>> THEN <<>>
    ELSE IF Head(todo) \in fails
         THEN <<>>
         ELSE <<calculate_score(c, t, DbCompany(Head(todo)),
                                <<DbCompany(Head(todo)).contacts>>, None)>>
              \o BatchLoopAborting(c, t, Tail(todo), fails)

\* the for loop with its try/except: a company whose contact query or
\* calculate_score raises is logged and skipped
RECURSIVE BatchLoop(_, _, _, _)
BatchLoop(c, t, todo, fails) ==
    IF todo = <<>> THEN <<>>
    ELSE IF Head(todo) \in fails
         THEN BatchLoop(c, t, Tail(todo), fails)
         ELSE <<calculate_score(c, t, DbCompany(Head(todo)),
                                <<DbCompany(Head(todo)).contacts>>, None)>>
              \o BatchLoop(c, t, Tail(todo), fails)

\* company.lead_score = lead_score.total_score, for each score appended
LeadScoreUpdates(column, out) ==
    [c \in DOMAIN column |->
        IF \E i \in 1..Len(out) : out[i].company_id = c
        THEN (CHOOSE ls \in {out[i] : i \in 1..Len(out)} : ls.company_id = c).total_score
        ELSE column[c]]

\* the rows an earlier run left
OldRows(c) ==
    {Row(1, calculate_score(c, StartDay - 8, DbCompany(Id1),
                            <<DbCompany(Id1).contacts>>, None), StartDay - 8),
     Row(2, calculate_score(c, StartDay - 7, DbCompany(Id3),
                            <<DbCompany(Id3).contacts>>, None), StartDay - 7)}

InitBatch ==
    /\ cfg = ABConfig
    /\ now = StartDay
    /\ pc = "start"
    /\ lead_scores \in SUBSET OldRows(cfg)
    /\ lead_score_of =
          [c \in DbIds |->
              IF \E r \in lead_scores : r.company_id = c
              THEN (CHOOSE r \in lead_scores : r.company_id = c).total_score
              ELSE 0]
    /\ batch_ids = <<>> /\ selected = {} /\ failing = {} /\ batch_out = <<>>
    /\ batches = 0
    /\ IdleScore /\ IdleIndustry /\ IdleVariant /\ IdleGrade /\ IdleComponent /\ IdleConstruct
    /\ IdleWorker /\ IdleAnalyzer /\ IdleConcurrent

\* limit: one row, or the default of 100
Limits == {1, 100}

IdArgs == {<<>>, <<Id3>>}

\* score_companies: the batch, session.add of each LeadScore, session.commit;
\* a failed commit is rolled back
ScoreCompanies ==
    /\ batches < MaxBatches
    /\ \E ids \in IdArgs, limit \in Limits, commit_ok \in BOOLEAN :
        \E chosen \in LimitedRows(QueryRows(lead_scores, now, ids), limit) :
            \E fails \in SUBSET CompaniesOf(chosen) :
                \E out \in {BatchLoop(cfg, now, InOrder(CompaniesOf(chosen)), fails)} :
                    /\ batch_ids' = ids
                    /\ selected' = CompaniesOf(chosen)
                    /\ failing' = fails
                    /\ batch_out' = out
                    /\ IF commit_ok
                       THEN /\ lead_scores' = lead_scores \cup
                                    {Row(Cardinality(lead_scores) + i, out[i], now) :
                                        i \in 1..Len(out)}
                            /\ lead_score_of' = LeadScoreUpdates(lead_score_of, out)
                       ELSE UNCHANGED <<lead_scores, lead_score_of>>
    /\ batches' = batches + 1
    /\ pc' = "batch"
    /\ UNCHANGED <<cfg, workerVars, analyzerVars, concurrentVars, constructVars, componentVars, now, scoreVars, industryVars, variantVars, gradeVars>>

Tick ==
    /\ now < StartDay + MaxDays
    /\ now' = now + 1
    /\ UNCHANGED <<cfg, workerVars, analyzerVars, concurrentVars, constructVars, componentVars, pc, scoreVars, industryVars, variantVars, gradeVars, batchVars>>

NextBatch == ScoreCompanies \/ Tick

SpecBatch == InitBatch /\ [][NextBatch]_vars

(***************************************************************************)
(* Specification of the scoring worker: handle_message takes a delivery    *)
(* of queue companies.to_score, process_message scores the company, and    *)
(* the delivery is acknowledged or rejected                                *)
(***************************************************************************)

\* deliveries handled
MaxDeliveries == 3

\* message bodies: decodes is FALSE for bytes json.loads cannot decode
\* (UnicodeDecodeError), json is FALSE for a text it cannot parse
\* (JSONDecodeError)
Body(json, company_id) ==
    [decodes |-> TRUE, json |-> json, company_id |-> company_id]

UndecodableBody == [decodes |-> FALSE, json |-> FALSE, company_id |-> None]

\* a company of the table, one that is not in it, no company_id, not JSON,
\* not text
Bodies ==
    {Body(TRUE, Id1), Body(TRUE, Id3), Body(TRUE, Id202), Body(TRUE, None),
     Body(FALSE, None), UndecodableBody}

\* acknowledge_message and reject_message
Ack == [op |-> "basic_ack", requeue |-> FALSE]
Reject(requeue) == [op |-> "basic_reject", requeue |-> requeue]

Thresholds == {70, 77, 78, 80}

\* what may raise during a delivery: the company query, publish_message,
\* db.commit()
Faults == {"none", "query", "publish", "commit"}

\* ScoringWorker.calculate_score: the placeholder algorithm
worker_calculate_score(co) ==
    LET scores == [industry_score |-> 70, size_score |-> 80,
                   location_score |-> 75, data_quality_score |-> 85]
        total_score == (scores.industry_score + scores.size_score
                        + scores.location_score + scores.data_quality_score) \div 4
    IN  [total_score |-> total_score,
         industry_score |-> scores.industry_score, size_score |-> scores.size_score,
         location_score |-> scores.location_score,
         data_quality_score |-> scores.data_quality_score,
         factors |-> [naics_code |-> co.naics_code,
                      employee_count |-> co.employee_count_min,
                      state |-> co.state,
                      has_contacts |-> Len(co.contacts) > 0]]

\* the LeadScore row process_message adds; run is the delivery that added it
WorkerRow(n, co, score_data, t, run) ==
    [id |-> n, company_id |-> co.id, created_at |-> t,
     total_score |-> score_data.total_score,
     score_grade |-> calculate_grade(score_data.total_score),
     created_by |-> "worker", run |-> run]

SyncMessage(company_id, run) ==
    [routing_key |-> "companies.to_sync.tasks", company_id |-> company_id, run |-> run]

\* process_message: the return value and what it leaves in the tables and on
\* the exchange.  An exception inside the with block rolls the session back
\* and is turned into False; what was published stays published.
process_message(body, f, ls, column, msgs, thr, t, run) ==
    LET unchanged == [ok |-> FALSE, rows |-> ls, column |-> column, msgs |-> msgs]
    IN  IF ~TruthyStr(body.company_id) THEN unchanged
        ELSE IF f = "query" THEN unchanged
        ELSE IF body.company_id \notin DbIds THEN unchanged
        ELSE LET co == DbCompany(body.company_id)
                 score_data == worker_calculate_score(co)
                 lead_score_row == WorkerRow(Cardinality(ls) + 1, co, score_data, t, run)
                 publish == score_data.total_score >= thr
                 sent == IF publish
                         THEN msgs \cup {SyncMessage(body.company_id, run)}
                         ELSE msgs
             IN  IF publish /\ f = "publish" THEN unchanged
                 ELSE IF f = "commit"
                 THEN [ok |-> FALSE, rows |-> ls, column |-> column, msgs |-> sent]
                 ELSE [ok |-> TRUE, rows |-> ls \cup {lead_score_row},
                       column |-> [column EXCEPT ![co.id] = score_data.total_score],
                       msgs |-> sent]

InitWorker ==
    /\ cfg = DefaultConfig
    /\ now = StartDay
    /\ pc = "start"
    /\ threshold \in Thresholds
    /\ queue \in {<<b>> : b \in Bodies} \cup {<<a, b>> : a \in Bodies, b \in Bodies}
    /\ sync_msgs = {} /\ returned = <<>> /\ deliveries = 0 /\ fault = "none"
    /\ dispositions = <<>>
    /\ lead_scores = {}
    /\ lead_score_of = [c \in DbIds |-> 0]
    /\ batch_ids = <<>> /\ selected = {} /\ failing = {} /\ batch_out = <<>>
    /\ batches = 0
    /\ IdleScore /\ IdleIndustry /\ IdleVariant /\ IdleGrade /\ IdleComponent
    /\ IdleConstruct /\ IdleAnalyzer /\ IdleConcurrent

\* handle_message on the delivery at the head of the queue: parse, process,
\* then acknowledge on True and reject with requeue on False; reject without
\* requeue on JSONDecodeError, with requeue on any other exception.  run
\* numbers the delivery.
Deliver(run) ==
    /\ queue # <<>>
    /\ IF ~Head(queue).decodes
       THEN /\ dispositions' = <<Reject(TRUE)>>
            /\ queue' = queue
            /\ returned' = <<>> /\ fault' = "none"
            /\ UNCHANGED <<lead_scores, lead_score_of, sync_msgs>>
       ELSE IF ~Head(queue).json
       THEN /\ dispositions' = <<Reject(FALSE)>>
            /\ queue' = Tail(queue)
            /\ returned' = <<>> /\ fault' = "none"
            /\ UNCHANGED <<lead_scores, lead_score_of, sync_msgs>>
       ELSE \E f \in Faults :
              \E out \in {process_message(Head(queue), f, lead_scores, lead_score_of,
                                          sync_msgs, threshold, now, run)} :
                /\ fault' = f
                /\ returned' = <<out.ok>>
                /\ lead_scores' = out.rows
                /\ lead_score_of' = out.column
                /\ sync_msgs' = out.msgs
                /\ dispositions' = IF out.ok THEN <<Ack>> ELSE <<Reject(TRUE)>>
                /\ queue' = IF out.ok THEN Tail(queue) ELSE queue
    /\ pc' = "handled"
    /\ UNCHANGED <<cfg, now, threshold, analyzerVars, concurrentVars, constructVars, componentVars,
                   scoreVars, industryVars, variantVars, gradeVars, batch_ids,
                   selected, failing, batch_out, batches>>

HandleMessage ==
    /\ deliveries < MaxDeliveries
    /\ deliveries' = deliveries + 1
    /\ Deliver(deliveries + 1)

NextWorker == HandleMessage

SpecWorker == InitWorker /\ [][NextWorker]_vars

\* the consumer keeps running: after MaxDeliveries the numbering of the
\* deliveries starts again at 1
HandleMessageAgain ==
    /\ deliveries = MaxDeliveries
    /\ deliveries' = 1
    /\ Deliver(1)

NextWorkerLive == HandleMessage \/ HandleMessageAgain

\* start_consuming delivers for as long as the queue holds a message
SpecWorkerLive == InitWorker /\ [][NextWorkerLive]_vars /\ WF_vars(NextWorkerLive)

(***************************************************************************)
(* Specification of the A/B test analyzer: analyze_test_results groups the *)
(* LeadScore rows of the test period by variant, computes each variant's   *)
(* statistics, compares the first two variants and words a recommendation. *)
(* Rates are kept as exact fractions [num, den].                           *)
(***************************************************************************)

\* runs of rows in one query result
MaxBlocks == 4

\* LeadScore.is_high_quality
HighQualityScore == 80
is_high_quality(row) == row.total_score >= HighQualityScore

\* _calculate_significance: the smallest sample it compares
MinSampleSize == 30

\* created_by values of the rows calculate_score writes
Creators == {"algorithm_control", "algorithm_variant_a"}

\* score.created_by.replace("algorithm_", "")
VariantOf(created_by) ==
    CASE created_by = "algorithm_control" -> "control"
      [] created_by = "algorithm_variant_a" -> "variant_a"
      [] OTHER -> created_by

\* count consecutive rows of the query result that have the same created_by
\* and total_score
RowBlock(created_by, total_score, count) ==
    [created_by |-> created_by, total_score |-> total_score, count |-> count]

RowBlocks ==
    {RowBlock(cb, ts, n) : cb \in Creators, ts \in {79, 80}, n \in {2, 29, 30}}

RECURSIVE QueryResults(_)
QueryResults(n) ==
    IF n = 0 THEN {<<>>}
    ELSE LET shorter == QueryResults(n - 1)
         IN  shorter \cup {Append(q, b) : q \in {r \in shorter : Len(r) = n - 1},
                                           b \in RowBlocks}

\* the grouping loop: variant_data in insertion order, each variant with the
\* number of its rows and of its high-quality rows
RECURSIVE GroupByVariant(_, _)
GroupByVariant(rows, variant_data) ==
    IF rows = <<>> THEN variant_data
    ELSE LET score == Head(rows)
             variant == VariantOf(score.created_by)
             high == IF is_high_quality(score) THEN score.count ELSE 0
             at == {i \in 1..Len(variant_data) : variant_data[i].variant = variant}
         IN  IF at = {}
             THEN GroupByVariant(Tail(rows),
                      Append(variant_data, [variant |-> variant, scores |-> score.count,
                                            high_quality_leads |-> high]))
             ELSE LET i == CHOOSE j \in at : TRUE
                  IN  GroupByVariant(Tail(rows),
                          [variant_data EXCEPT
                              ![i].scores = @ + score.count,
                              ![i].high_quality_leads = @ + high])

\* fractions in lowest terms with a positive denominator, and a - b, a / b,
\* a > b and |a| on them
RECURSIVE GCD(_, _)
GCD(a, b) == IF b = 0 THEN a ELSE GCD(b, a % b)
Frac(n, d) ==
    LET g == GCD(IF n < 0 THEN -n ELSE n, d)
    IN  [num |-> n \div g, den |-> d \div g]
FracSub(a, b) == Frac(a.num * b.den - b.num * a.den, a.den * b.den)
FracDiv(a, b) == Frac(a.num * b.den, a.den * b.num)
FracGreater(a, b) == a.num * b.den > b.num * a.den
FracAbs(a) == [num |-> IF a.num < 0 THEN -a.num ELSE a.num, den |-> a.den]

\* variant_stats, in the order of variant_data; a variant without rows is left out
VariantStats(variant_data) ==
    LET kept == SelectSeq(variant_data, LAMBDA g : g.scores > 0)
    IN  [i \in 1..Len(kept) |->
            [variant |-> kept[i].variant,
             sample_size |-> kept[i].scores,
             conversion_rate |-> Frac(kept[i].high_quality_leads, kept[i].scores)]]


\* the placeholder p-value _calculate_significance returns
PlaceholderPValue == Frac(5, 100)

\* the threshold of the simplified significance test
DifferenceThreshold == Frac(5, 100)

NoComparison ==
    [is_significant |-> FALSE, p_value |-> <<>>, winning_variant |-> None, lift |-> <<>>]

\* _calculate_significance from the conversion rates on: lift, difference,
\* winner
CompareRates(control, control_stats, variant, variant_stats_data) ==
    LET control_rate == control_stats.conversion_rate
        variant_rate == variant_stats_data.conversion_rate
        delta == FracSub(variant_rate, control_rate)
        lift == IF control_rate.num > 0
                THEN LET ratio == FracDiv(delta, control_rate)
                     IN  Frac(ratio.num * 100, ratio.den)
                ELSE Frac(0, 1)
        difference == FracAbs(delta)
    IN  [is_significant |-> FracGreater(difference, DifferenceThreshold),
         p_value |-> <<PlaceholderPValue>>,
         winning_variant |-> IF FracGreater(variant_rate, control_rate)
                             THEN variant ELSE control,
         lift |-> <<lift>>]

_calculate_significance_any_sample(variant_stats) ==
    IF Len(variant_stats) < 2 THEN NoComparison
    ELSE CompareRates(variant_stats[1].variant, variant_stats[1],
                      variant_stats[2].variant, variant_stats[2])

_calculate_significance(variant_stats) ==
    IF Len(variant_stats) < 2 THEN NoComparison
    ELSE LET control_stats == variant_stats[1]
             variant_stats_data == variant_stats[2]
         IN  IF \/ control_stats.sample_size < MinSampleSize
                \/ variant_stats_data.sample_size < MinSampleSize
             THEN NoComparison
             ELSE CompareRates(control_stats.variant, control_stats,
                               variant_stats_data.variant, variant_stats_data)

\* the recommendation texts, before the winner and the lift are filled in
NotSignificantText ==
    "Test is not statistically significant. Continue running or increase sample size."
UnableText == "Unable to determine winning variant. Review test setup."
SmallLiftText ==
    "Winning variant: {winning_variant}, but lift is small ({lift:.1f}%). Consider practical significance."
ImplementText ==
    "Implement {winning_variant} - shows {lift:.1f}% improvement in conversion rate."
StickWithControlText ==
    "Stick with control - {winning_variant} shows {abs(lift):.1f}% decrease in performance."

\* the smallest |lift|, in percent, that is not called small
SmallLift == 5

\* _generate_recommendation: the text chosen and the winner written into it
_generate_recommendation(is_significant, winning_variant, lift) ==
    IF ~is_significant
    THEN [text |-> NotSignificantText, winning_variant |-> None]
    ELSE IF winning_variant = None \/ lift = <<>> \/ lift[1].num = 0
    THEN [text |-> UnableText, winning_variant |-> None]
    ELSE IF FracGreater(Frac(SmallLift, 1), FracAbs(lift[1]))
    THEN [text |-> SmallLiftText, winning_variant |-> winning_variant]
    ELSE IF lift[1].num > 0
    THEN [text |-> ImplementText, winning_variant |-> winning_variant]
    ELSE [text |-> StickWithControlText, winning_variant |-> winning_variant]

\* analyze_test_results on the rows the query returned
analyze_test_results(rows) ==
    LET variant_stats == VariantStats(GroupByVariant(rows, <<>>))
        significance == _calculate_significance(variant_stats)
    IN  [variant_stats |-> variant_stats,
         is_significant |-> significance.is_significant,
         p_value |-> significance.p_value,
         winning_variant |-> significance.winning_variant,
         lift_percentage |-> significance.lift,
         recommendation |-> _generate_recommendation(significance.is_significant,
                                                     significance.winning_variant,
                                                     significance.lift)]

InitAnalyzer ==
    /\ cfg = DefaultConfig
    /\ now = StartDay
    /\ pc = "start"
    /\ ab_rows \in QueryResults(MaxBlocks)
    /\ ab_result = <<>>
    /\ IdleScore /\ IdleIndustry /\ IdleVariant /\ IdleGrade /\ IdleBatch
    /\ IdleComponent /\ IdleConstruct /\ IdleWorker /\ IdleConcurrent

AnalyzeTestResults ==
    /\ pc = "start"
    /\ ab_result' = <<analyze_test_results(ab_rows)>>
    /\ pc' = "analyzed"
    /\ UNCHANGED <<cfg, now, ab_rows, workerVars, concurrentVars, constructVars,
                   componentVars, scoreVars, industryVars, variantVars, gradeVars, batchVars>>

NextAnalyzer == AnalyzeTestResults

SpecAnalyzer == InitAnalyzer /\ [][NextAnalyzer]_vars

(***************************************************************************)
(* Properties                                                              *)
(***************************************************************************)

Scored == pc = "scored"
Score == result[1]

\* the list calculate_score worked with
ContactsUsed == IF contacts = <<>> THEN company.contacts ELSE contacts[1]

AllQualityFlagsSet ==
    /\ TruthyStr(company.website) /\ TruthyStr(company.phone)
    /\ TruthyStr(company.email_domain) /\ has_complete_address(company)
    /\ TruthyStr(company.ein) /\ recent_update(company, now)

\* C1: for every company record, every contact list (the adversarial ones
\* included) and every algorithm variant, the total_score of the LeadScore
\* returned by calculate_score is an integer in [0,100].
C1_TotalScoreInRange ==
    Scored => Score.total_score \in 0..100

\* C1 witness: the adversarial input has been scored: all quality flags set,
\* every contact a verified executive HR decision-maker, 10,000,000 employees,
\* NAICS "99999999".
C1_Witness ==
    /\ Scored
    /\ AllQualityFlagsSet
    /\ company.employee_count_exact = 10000000
    /\ company.naics_code = "99999999"
    /\ ContactsUsed = Repeat(AllFlagsContact, MaxContacts)
    /\ Score.total_score \in 0..100

LadderRows == <<
    [lo |-> 95, hi |-> 100, grade |-> "A+"], [lo |-> 90, hi |-> 94, grade |-> "A"],
    [lo |-> 85, hi |-> 89, grade |-> "A-"], [lo |-> 80, hi |-> 84, grade |-> "B+"],
    [lo |-> 75, hi |-> 79, grade |-> "B"], [lo |-> 70, hi |-> 74, grade |-> "B-"],
    [lo |-> 65, hi |-> 69, grade |-> "C+"], [lo |-> 60, hi |-> 64, grade |-> "C"],
    [lo |-> 55, hi |-> 59, grade |-> "C-"], [lo |-> 0, hi |-> 54, grade |-> "D"] >>

\* position of a grade on the ladder, D lowest
GradeRank(g) == CHOOSE i \in 1..Len(LadderRows) : LadderRows[Len(LadderRows) + 1 - i].grade = g

\* C2: for every integer score s in 0..100 calculate_grade(s) is the row of
\* the ladder that holds s (>=95 A+, 90..94 A, 85..89 A-, 80..84 B+, 75..79 B,
\* 70..74 B-, 65..69 C+, 60..64 C, 55..59 C-, <=54 D), and of two calls the
\* one with the larger score never gets the lower grade.
C2_GradeLadder ==
    /\ (pc # "start" /\ score_in \in 0..100) =>
          \E i \in 1..Len(LadderRows) :
              /\ LadderRows[i].lo <= score_in /\ score_in <= LadderRows[i].hi
              /\ grade_out = LadderRows[i].grade
    /\ (pc = "graded twice" /\ prev_score <= score_in) =>
          GradeRank(prev_grade) <= GradeRank(grade_out)

\* C2 witness: 94 was graded A and then 95 was graded A+.
C2_Witness ==
    /\ pc = "graded twice"
    /\ prev_score = 94 /\ prev_grade = "A"
    /\ score_in = 95 /\ grade_out = "A+"

\* the spec's end-to-end example, scored with the control weights under the
\* default tables
IsExample ==
    /\ cfg.industry_weights = DefaultIndustryWeights
    /\ cfg.ab_testing.algorithm_variants = DefaultAlgorithmVariants
    /\ override = "control"
    /\ company.naics_code = "621111"
    /\ company.employee_count_exact = 150
    /\ TruthyStr(company.website) /\ TruthyStr(company.phone)
    /\ TruthyStr(company.email_domain) /\ has_complete_address(company)
    /\ ~TruthyStr(company.ein)
    /\ company.updated_at = <<now>>
    /\ contacts = << <<ExecutiveContact>> >>

\* C3 as stated: for the end-to-end example the contact score is 18, the
\* data-quality score is 18, the size score includes the optimal-range bonus,
\* and total_score lands in 80..89 (grade B+ or A-).
C3_ExampleAsStated ==
    (Scored /\ IsExample) =>
        /\ Score.engagement_score = 18
        /\ Score.data_quality_score = 18
        /\ Score.scoring_factors.size.in_optimal_range
        /\ Score.total_score \in 80..89
        /\ Score.score_grade \in {"B+", "A-"}

\* C3 amended: for the end-to-end example the contact score is 18, the
\* data-quality score is 18, the size score is the bucket's 85 + 15 plus the
\* optimal-range bonus 15, capped at 100, and total_score is 75 (grade B):
\* 100*0.4 + 100*0.3 + 18*0.2 + 18*0.1 = 75.4.
C3_Example ==
    (Scored /\ IsExample) =>
        /\ Score.engagement_score = 18
        /\ Score.data_quality_score = 18
        /\ Score.scoring_factors.size.in_optimal_range
        /\ Score.scoring_factors.size.base_score = 85
        /\ Score.scoring_factors.size.bonus_points = 15
        /\ Score.size_score = 100
        /\ Score.industry_score = 100
        /\ Score.total_score = 75
        /\ Score.score_grade = "B"

\* C3 witness: the example has been scored.
C3_Witness == Scored /\ IsExample /\ Score.total_score = 75

\* the first entry whose running sum strictly exceeds bucket/1000, 0 if none
StrictIndex(ws, bucket, total) ==
    LET hits == {i \in 1..Len(ws) : bucket * total < Cumulative(ws, i) * 1000}
    IN  IF hits = {} THEN 0 ELSE CHOOSE i \in hits : \A j \in hits : i <= j

\* C6 as stated: assignment selects the first variant, in table order, whose
\* running sum of weights strictly exceeds v = (hash mod 1000) / 1000, so a v
\* equal to a cumulative boundary belongs to the next variant; in the engine
\* (A/B testing enabled) and in the tracker.
C6_StrictlyExceeds ==
    /\ (engine_variant # None /\ cfg.ab_testing.enabled) =>
          LET ws == cfg.ab_testing.variant_weights
              i == StrictIndex(ws, Md5Mod1000[company.id], SumWeights(ws))
          IN  i # 0 /\ engine_variant = ws[i].variant
    /\ tracker_variant # None =>
          LET ws == test_config.traffic_split
              i == StrictIndex(ws, Md5Mod1000[test_config.test_name \o "_" \o company.id], 1000)
          IN  i # 0 /\ tracker_variant = ws[i].variant

\* hash buckets that lie on a cumulative boundary of a traffic split
Boundaries(ws) == {b \in 0..999 : \E i \in 1..Len(ws) : b * SumWeights(ws) = Cumulative(ws, i) * 1000}

\* C7 as stated: with A/B testing enabled, the engine's own assignment of a
\* company and ABTestTracker.get_variant_assignment for the active test name
\* and the same traffic weights name the same variant (compared where no
\* hash value lies on a boundary of the split).
C7_SameAssignment ==
    (/\ engine_variant # None /\ tracker_variant # None
     /\ cfg.ab_testing.enabled
     /\ test_config.test_name = cfg.ab_testing.test_name
     /\ test_config.traffic_split = cfg.ab_testing.variant_weights
     /\ Md5Mod1000[company.id] \notin Boundaries(cfg.ab_testing.variant_weights)
     /\ Md5Mod1000[test_config.test_name \o "_" \o company.id]
            \notin Boundaries(test_config.traffic_split))
    => engine_variant = tracker_variant

\* C8 as stated: every LeadScore returned by calculate_score is tagged
\* created_by = "algorithm_<variant>" for a configured variant, carries that
\* variant's configured version, and its total_score is computed with that
\* variant's component weights; for assigned and for overriding variant names.
C8_TaggedWithOwnConfig ==
    Scored =>
        \E v \in DOMAIN cfg.ab_testing.algorithm_variants :
            LET variant_config == cfg.ab_testing.algorithm_variants[v]
                f == Score.scoring_factors
            IN  /\ Score.created_by = "algorithm_" \o v
                /\ Score.scoring_version = variant_config.version
                /\ Score.total_score =
                      Trunc(TotalScore(WeightedSum(variant_config,
                          f.industry.final_score, f.size.final_score,
                          f.contacts.final_score, f.data_quality.final_score)), 1000)

\* lengths of the proper truncations of a code, 2 characters or more, that
\* are keys of the table
KeyTruncations(c, code) ==
    {n \in 2..(Len(code) - 1) : SubSeq(code, 1, n) \in DOMAIN c.industry_weights}

\* C10: get_industry_weight returns the entry of the exact code if it is a
\* key; otherwise the entry of the longest truncation, of len-1 down to 2
\* characters, that is a key; otherwise, and for a missing or empty code, the
\* default entry.  Under the default table "621111", "62111", "6211" and
\* "621" give entry "621" and "000000" gives the default entry.
C10_IndustryLookup ==
    industry_out # <<>> =>
        /\ industry_out[1] =
              IF naics_in = None \/ naics_in = "" THEN cfg.default_industry
              ELSE IF naics_in \in DOMAIN cfg.industry_weights
              THEN cfg.industry_weights[naics_in]
              ELSE IF KeyTruncations(cfg, naics_in) # {}
              THEN LET n == CHOOSE n \in KeyTruncations(cfg, naics_in) :
                                \A m \in KeyTruncations(cfg, naics_in) : m <= n
                   IN  cfg.industry_weights[SubSeq(naics_in, 1, n)]
              ELSE cfg.default_industry
        /\ (cfg.industry_weights = DefaultIndustryWeights
            /\ naics_in \in {"621111", "62111", "6211", "621"})
              => industry_out[1] = DefaultIndustryWeights["621"]
        /\ naics_in = "000000" => industry_out[1] = cfg.default_industry

\* C10 witness: a code with two truncations among the keys was looked up and
\* gave the entry of the longer one.
C10_Witness ==
    /\ industry_out # <<>>
    /\ naics_in = "621111"
    /\ KeyTruncations(cfg, naics_in) = {2, 3, 4}
    /\ industry_out[1].naics_code = "6211"

\* a LeadScore of company c created within the last 7 days is stored
HasRecentScore(c) ==
    \E r \in lead_scores : r.company_id = c /\ r.created_at >= now - 7

BatchRan == batches' = batches + 1

\* C4 as stated: a batch called without company ids never selects a company
\* that already has a LeadScore created within the last 7 days.
C4_NeverSelectsRecentlyScored ==
    [][(BatchRan /\ batch_ids' = <<>>) =>
          \A c \in selected' : ~HasRecentScore(c)]_vars

\* C5: a failure while scoring one company never aborts the batch: the list
\* returned holds exactly one LeadScore for every selected company whose
\* scoring did not raise and none for one whose scoring raised, and
\* company.lead_score changes only for companies in the list.
C5_BatchResilience ==
    [][BatchRan =>
          /\ Len(batch_out') = Cardinality(selected' \ failing')
          /\ \A c \in selected' \ failing' :
                Cardinality({i \in 1..Len(batch_out') : batch_out'[i].company_id = c}) = 1
          /\ \A i \in 1..Len(batch_out') : batch_out'[i].company_id \notin failing'
          /\ \A c \in DbIds :
                lead_score_of'[c] # lead_score_of[c] =>
                    \E i \in 1..Len(batch_out') : batch_out'[i].company_id = c]_vars

\* C5 witness: a batch of three companies in which the second one's scoring
\* raised returned the two other LeadScores.
C5_Witness ==
    /\ batches > 0
    /\ selected = DbIds
    /\ failing = {Id3}
    /\ Len(batch_out) = 2
    /\ batch_out[1].company_id = Id1 /\ batch_out[2].company_id = Id5
    /\ lead_score_of[Id5] = batch_out[2].total_score

\* the bucket of a size table with the smallest lower end
SmallestBucket(rs) ==
    CHOOSE r \in {rs[i] : i \in 1..Len(rs)} :
        \A i \in 1..Len(rs) : ParsedRange(r.range).lo <= ParsedRange(rs[i].range).lo

\* the first bucket, in table order, whose range holds the count; the
\* smallest bucket for a count of 0 or a count no range holds
BucketFor(rs, count) ==
    LET holds(i) == LET r == ParsedRange(rs[i].range)
                    IN  r.lo <= count /\ (r.open \/ count <= r.hi)
        hits == {i \in 1..Len(rs) : holds(i)}
    IN  IF count = 0 \/ hits = {} THEN SmallestBucket(rs)
        ELSE rs[CHOOSE i \in hits : \A j \in hits : i <= j]

\* C11 as stated: for every employee count the size score is min(100, score +
\* bonus of the chosen bucket, plus the optimal bonus when optimal_min <=
\* count <= optimal_max), the chosen bucket being the first range in table
\* order that holds the count and, for a count of 0 or one no range holds,
\* the smallest bucket of the configured size table.
C11_SizeScoreFromTable ==
    size_out # <<>> =>
        LET count == _get_employee_count(company)
            bucket == BucketFor(cfg.employee_size.ranges, count)
            optimal == IF cfg.employee_size.optimal_min <= count
                          /\ count <= cfg.employee_size.optimal_max
                       THEN cfg.employee_size.bonus_points ELSE 0
        IN  size_out[1] = 10 * Min(100, bucket.score + bucket.bonus + optimal)

\* how many contacts of the list called have the attribute
Having(attr) == Cardinality({i \in 1..Len(contacts[1]) : contacts[1][i][attr]})

\* C12: for every contact list the contact score is min(max_contact_score,
\* decision makers * base points + executives * executive bonus + HR contacts
\* * HR bonus + verified emails * verified bonus + the multiple-contacts bonus
\* for a list of 3 or more), a contact counting in every category it belongs
\* to; an empty list scores 0; the score lies in [0, max_contact_score], also
\* for the long list of verified executive HR decision-makers.
C12_ContactScore ==
    contact_out # <<>> =>
        LET config == cfg.contact_scoring
            points == Having("is_decision_maker") * config.decision_maker_base_points
                      + Having("is_executive") * config.executive_bonus_points
                      + Having("is_hr_related") * config.hr_benefits_bonus_points
                      + Having("email_verified") * config.verified_email_bonus
                      + (IF Len(contacts[1]) >= 3 THEN config.multiple_contacts_bonus ELSE 0)
        IN  /\ contact_out[1] =
                  IF contacts[1] = <<>> THEN 0
                  ELSE 10 * Min(config.max_contact_score, points)
            /\ 0 <= contact_out[1] /\ contact_out[1] <= 10 * config.max_contact_score

\* C12 witness: the long list of verified executive HR decision-makers was
\* scored and got exactly the cap.
C12_Witness ==
    /\ contact_out # <<>>
    /\ contacts[1] = Repeat(AllFlagsContact, ManyContacts)
    /\ contact_out[1] = 10 * cfg.contact_scoring.max_contact_score

Max(a, b) == IF a >= b THEN a ELSE b

\* the documented cap of the data-quality score
QualityCap == 20

\* C13 as stated: the data-quality score is the sum of the configured weights
\* of the flags that are true (website, phone, email domain, complete
\* address, tax id, updated within 30 days of scoring), clamped to [0, cap]
\* with cap 20; for every configured data_quality_weights it never exceeds
\* the cap and is never negative.
C13_DataQualityScore ==
    quality_out # <<>> =>
        LET weights == cfg.data_quality_weights
            sum == (IF TruthyStr(company.website) THEN weights.has_website ELSE 0)
                   + (IF TruthyStr(company.phone) THEN weights.has_phone ELSE 0)
                   + (IF TruthyStr(company.email_domain) THEN weights.has_email_domain ELSE 0)
                   + (IF TruthyStr(company.street_address) /\ TruthyStr(company.city)
                         /\ TruthyStr(company.state)
                      THEN weights.has_address ELSE 0)
                   + (IF TruthyStr(company.ein) THEN weights.has_ein ELSE 0)
                   + (IF company.updated_at # <<>> /\ now - company.updated_at[1] < 30
                      THEN weights.recent_data ELSE 0)
        IN  /\ quality_out[1] = 10 * Max(0, Min(QualityCap, sum))
            /\ 0 <= quality_out[1] /\ quality_out[1] <= 10 * QualityCap

\* the caller supplied no configuration, or an empty one
NoConfigSupplied ==
    /\ config_in.via # None
    /\ (config_in.config = <<>> \/ config_in.config[1] = EmptyFile)

\* C14 as stated: building or using the engine with a missing or empty
\* configuration is a fatal error: no engine is built from it, no
\* configuration is substituted, and nothing is scored.
C14_NoEngineWithoutConfig ==
    NoConfigSupplied => pc = "new" /\ cfg = <<>> /\ result = <<>>

\* the "1-10" bucket the size lookup falls back to
FallbackBucket ==
    CHOOSE r \in {cfg.employee_size.ranges[i] : i \in 1..Len(cfg.employee_size.ranges)} :
        r.range = "1-10"

\* C15: calculate_score never raises because of sparse or malformed optional
\* data (missing NAICS code; missing, zero, negative or unparseable employee
\* counts or employee_range text; empty or None contact list; missing quality
\* fields and updated_at; an override naming an unknown variant): it returns
\* a LeadScore whose four component scores and size category are the
\* fallback values.
C15_SparseDataNeverRaises ==
    /\ pc # "raised"
    /\ Scored =>
        /\ Score.industry_score \in 0..100 /\ Score.size_score \in 0..100
        /\ Score.engagement_score \in 0..cfg.contact_scoring.max_contact_score
        /\ Score.data_quality_score \in 0..20
        /\ \E i \in 1..Len(cfg.employee_size.ranges) :
              Score.size_category = cfg.employee_size.ranges[i].category
        /\ ~TruthyStr(company.naics_code) =>
              /\ 10 * Score.industry_score =
                    cfg.default_industry.base_score * cfg.default_industry.weight
              /\ Score.industry_risk_level = cfg.default_industry.risk_level
        /\ ParseError(company) # None => Score.employee_count_used = 0
        /\ Score.employee_count_used = 0 =>
              Score.size_score = 20 /\ Score.size_category = FallbackBucket.category
        /\ Score.employee_count_used < 0 =>
              Score.size_category = FallbackBucket.category
        /\ ContactsUsed = <<>> => Score.engagement_score = 0
        /\ (\A f \in DOMAIN NoQuality : company[f] = NoQuality[f]) =>
              Score.data_quality_score = 0
        /\ (TruthyStr(override) /\ override \notin DOMAIN cfg.ab_testing.algorithm_variants) =>
              Score.scoring_version = cfg.ab_testing.algorithm_variants["control"].version

\* C15 witness: a company with no NAICS code, the employee_range text "abc",
\* no contacts and no quality fields was scored under an unknown override.
C15_Witness ==
    /\ Scored
    /\ company.naics_code = None /\ company.employee_range = "abc"
    /\ ContactsUsed = <<>> /\ company.website = None /\ company.updated_at = <<>>
    /\ override = "variant_x"
    /\ Score.size_score = 20 /\ Score.industry_score = 50

\* C16 as stated: compute, persist and enqueue are one unit of work in
\* process_message: a CRM-sync message is left published only if the
\* LeadScore row of the same run was committed (none exists after a failed
\* commit), and retrying a message after a storage failure leaves no more
\* than one sync message per committed score.
C16_SyncOnlyForCommittedScore ==
    /\ \A m \in sync_msgs :
          \E r \in lead_scores : r.run = m.run /\ r.company_id = m.company_id
    /\ \A c \in DbIds :
          Cardinality({m \in sync_msgs : m.company_id = c})
              <= Cardinality({r \in lead_scores : r.company_id = c})

\* a delivery whose body is JSON was handled in this step
Processed == deliveries' = deliveries + 1 /\ Head(queue).json

\* the message names no company, or one that does not exist, or the
\* database raised
Refused ==
    \/ ~TruthyStr(Head(queue).company_id)
    \/ Head(queue).company_id \notin DbIds
    \/ fault' \in {"query", "commit"}

\* C17 as stated: process_message publishes {company_id} to
\* "companies.to_sync.tasks" exactly when total_score >= high_score_threshold,
\* and then and otherwise adds exactly one LeadScore graded
\* calculate_grade(total_score), commits and returns True; with no
\* company_id, a company that does not exist, or a database error it returns
\* False, publishes nothing and stores no LeadScore.
C17_PublishIffHighScore ==
    [][Processed =>
        IF Refused
        THEN /\ returned' = <<FALSE>>
             /\ sync_msgs' = sync_msgs
             /\ lead_scores' = lead_scores
        ELSE fault' = "none" =>
             LET id == Head(queue).company_id
                 total == worker_calculate_score(DbCompany(id)).total_score
             IN  /\ returned' = <<TRUE>>
                 /\ \E r \in lead_scores' \ lead_scores :
                       /\ lead_scores' = lead_scores \cup {r}
                       /\ r.company_id = id /\ r.total_score = total
                       /\ r.score_grade = calculate_grade(total)
                 /\ lead_score_of'[id] = total
                 /\ sync_msgs' \ sync_msgs =
                       IF total >= threshold
                       THEN {SyncMessage(id, deliveries')} ELSE {}
                 /\ sync_msgs \subseteq sync_msgs']_vars

Analyzed == pc = "analyzed"
Analysis == ab_result[1]

\* the rows of the query result written by a variant, and the high-quality
\* ones among them, counted on the query result itself
RECURSIVE RowsBy(_, _, _)
RowsBy(rows, variant, only_high) ==
    IF rows = <<>> THEN 0
    ELSE (IF /\ VariantOf(Head(rows).created_by) = variant
             /\ (only_high => Head(rows).total_score >= 80)
          THEN Head(rows).count ELSE 0)
         + RowsBy(Tail(rows), variant, only_high)

SampleSize(variant) == RowsBy(ab_rows, variant, FALSE)
HighQuality(variant) == RowsBy(ab_rows, variant, TRUE)

\* |rate(a) - rate(b)| > 0.05, on the counts
RatesDifferByMoreThanFiveHundredths(a, b) ==
    LET d == HighQuality(a) * SampleSize(b) - HighQuality(b) * SampleSize(a)
    IN  20 * (IF d < 0 THEN -d ELSE d) > SampleSize(a) * SampleSize(b)

ComparisonAbsent ==
    /\ ~Analysis.is_significant
    /\ Analysis.p_value = <<>>
    /\ Analysis.winning_variant = None
    /\ Analysis.lift_percentage = <<>>

C19_LiftAgainstNamedControl ==
    (Analyzed /\ Analysis.lift_percentage # <<>> /\ HighQuality("control") > 0) =>
        LET lift == Analysis.lift_percentage[1]
            hc == HighQuality("control")
            nc == SampleSize("control")
            hv == HighQuality("variant_a")
            nv == SampleSize("variant_a")
        IN  /\ lift = Frac((hv * nc - hc * nv) * 100, nv * hc)
            /\ Analysis.winning_variant = "variant_a" <=> hv * nc > hc * nv

\* C20: the recommendation follows (is_significant, lift): not significant,
\* keep running; significant with |lift| < 5, significant but small;
\* significant with positive lift, adopt the variant; significant with
\* negative lift, keep control; a significant result is in one of the last
\* three cases.
C20_RecommendationByCase ==
    Analyzed =>
        LET text == Analysis.recommendation.text
        IN  IF ~Analysis.is_significant THEN text = NotSignificantText
            ELSE /\ Analysis.lift_percentage # <<>>
                 /\ LET lift == Analysis.lift_percentage[1]
                         small == FracGreater(Frac(5, 1), FracAbs(lift))
                     IN  text = IF small THEN SmallLiftText
                                ELSE IF lift.num > 0 THEN ImplementText
                                ELSE StickWithControlText

\* a line of a reasons list or of a recommendation
Mentions(lines, line) == \E i \in 1..Len(lines) : lines[i] = line

NoContactsReason == "No contacts found - may require additional prospecting"
FindContactsAddOn == "High priority: Find decision-maker contacts before outreach"

\* C29: in every LeadScore returned by calculate_score, for every company
\* and every contacts argument, the reasons hold the "No contacts found" line
\* exactly when the recommendation holds the "Find decision-maker contacts
\* before outreach" add-on.
C29_ReasonsAndRecommendationAgreeOnContacts ==
    Scored =>
        (Mentions(Score.score_reasons, NoContactsReason)
            <=> Mentions(Score.recommendations, FindContactsAddOn))

OptimalSizeReason == "Optimal company size"
OptimalSizeAddOn ==
    "Optimal size for group health insurance - emphasize cost savings"

\* the size score with and without the optimal-range bonus, in tenths
SizeScoreWith(extra) ==
    LET size_config == get_employee_size_config(cfg, _get_employee_count(company))
    IN  Min(1000, 10 * (size_config.score + size_config.bonus + extra))

\* C30: in every LeadScore returned by calculate_score, for every configured
\* optimal_min / optimal_max, the recommendation holds the "Optimal size for
\* group health insurance" add-on exactly when scoring_factors.size.
\* in_optimal_range is true, which is exactly when the "Optimal company size"
\* reason is given and the optimal bonus was added to the size score.
C30_OptimalSizeAgreesEverywhere ==
    Scored =>
        LET in_range == Score.scoring_factors.size.in_optimal_range
            final_score == Score.scoring_factors.size.final_score
        IN  /\ Mentions(Score.recommendations, OptimalSizeAddOn) <=> in_range
            /\ Mentions(Score.score_reasons, OptimalSizeReason) <=> in_range
            /\ in_range =>
                  final_score = SizeScoreWith(cfg.employee_size.bonus_points)
            /\ (~in_range /\ _get_employee_count(company) # 0) =>
                  final_score = SizeScoreWith(0)

\* the reason lines that are about the industry, the size, the absence of
\* contacts or the data quality; every other line is about a contact type
SizeFitReasons ==
    {OptimalSizeReason, "Large company size may indicate complex decision-making",
     "Small company size may limit insurance budget"}

OtherReasons ==
    {"Low-risk industry", "High-risk industry", NoContactsReason,
     "High data quality with complete company information",
     "Limited data quality - may need enrichment"} \cup SizeFitReasons

ContactTypes == {"decision_makers", "executives", "hr_contacts", "verified_emails"}

\* C24: the reasons of a LeadScore hold one line for every contact-type
\* count of the factors that is nonzero (decision-makers, executives, HR
\* contacts, verified emails) and none for a count of zero, hold the "No
\* contacts found" line exactly when the contact list is empty, and hold at
\* most one of the three size-fit lines.
C24_ReasonPerContactType ==
    Scored =>
        LET reasons == Score.score_reasons
            counts == Score.scoring_factors.contacts
            about_contacts == {i \in 1..Len(reasons) : reasons[i] \notin OtherReasons}
        IN  /\ Mentions(reasons, "Found decision-maker contact(s)")
                  <=> counts.decision_makers > 0
            /\ Mentions(reasons, "Found executive contact(s)")
                  <=> counts.executives > 0
            /\ Mentions(reasons, "Found HR/benefits contact(s)")
                  <=> counts.hr_contacts > 0
            /\ Cardinality(about_contacts)
                  = Cardinality({k \in ContactTypes : counts[k] > 0})
            /\ Mentions(reasons, NoContactsReason) <=> ContactsUsed = <<>>
            /\ Cardinality({i \in 1..Len(reasons) : reasons[i] \in SizeFitReasons}) <= 1

HighPriorityTier == "High-priority lead - prioritize for immediate outreach"

GradesAboveB == {"A+", "A", "A-", "B+"}

\* C25: under the default configuration the total_score of any input is at
\* most 78 under the control variant and at most 71 under variant_a, so no
\* default-configuration LeadScore has total_score >= 80, a grade above B,
\* is_high_quality true or the "High-priority lead" recommendation tier.
C25_DefaultScoresBelowEighty ==
    (Scored /\ cfg = DefaultConfig) =>
        /\ Score.created_by = "algorithm_variant_a" => Score.total_score <= 71
        /\ Score.total_score <= 78
        /\ Score.total_score < 80
        /\ Score.score_grade \notin GradesAboveB
        /\ ~is_high_quality(Score)
        /\ ~Mentions(Score.recommendations, HighPriorityTier)

\* C25 witness: the two maxima are taken: every component at its cap, under
\* control (78) and under variant_a (71)
C25_Witness ==
    /\ Scored /\ cfg = DefaultConfig
    /\ Score.industry_score = 100 /\ Score.size_score = 100
    /\ Score.engagement_score = 30 /\ Score.data_quality_score = 20
    /\ Score.created_by = "algorithm_variant_a"
    /\ Score.total_score = 71

\* the variants of a weight table
KeysOf(ws) == {ws[i].variant : i \in 1..Len(ws)}

\* C23: if the cumulative walk selects no variant (weights that do not sum
\* to exactly 1, or rounding), assignment returns the first variant of the
\* variant->weight table in its order, in _get_algorithm_variant and in
\* get_variant_assignment alike; so the variant returned is always a key of
\* the weight table that was walked.
C23_FallbackIsFirstOfWeightTable ==
    /\ (engine_variant # None /\ cfg.ab_testing.enabled) =>
          LET ws == cfg.ab_testing.variant_weights
          IN  /\ WalkIndex(ws, Md5Mod1000[company.id], SumWeights(ws)) = 0
                    => engine_variant = ws[1].variant
              /\ engine_variant \in KeysOf(ws)
    /\ tracker_variant # None =>
          LET ws == test_config.traffic_split
              bucket == Md5Mod1000[test_config.test_name \o "_" \o company.id]
          IN  /\ WalkIndex(ws, bucket, 1000) = 0 => tracker_variant = ws[1].variant
              /\ tracker_variant \in KeysOf(ws)

\* C26: a variant whose traffic weight is 0 is never returned by variant
\* assignment, for every hash bucket 0..999 and every position of the
\* variant in the weight table, in _get_algorithm_variant (A/B testing
\* enabled) and in get_variant_assignment.
C26_ZeroWeightNeverAssigned ==
    /\ (engine_variant # None /\ cfg.ab_testing.enabled) =>
          \A i \in 1..Len(cfg.ab_testing.variant_weights) :
              cfg.ab_testing.variant_weights[i].variant = engine_variant
                  => cfg.ab_testing.variant_weights[i].weight # 0
    /\ tracker_variant # None =>
          \A i \in 1..Len(test_config.traffic_split) :
              test_config.traffic_split[i].variant = tracker_variant
                  => test_config.traffic_split[i].weight # 0

Delivered == deliveries' = deliveries + 1

\* C28: for every delivered message handle_message issues exactly one
\* disposition: ack if and only if process_message returned True; reject
\* with requeue=True if it returned False or raised; reject with
\* requeue=False if and only if the body is not valid JSON; never both an
\* ack and a reject, never none.
C28_ExactlyOneDisposition ==
    [][Delivered =>
        /\ Len(dispositions') = 1
        /\ dispositions'[1] = Ack <=> returned' = <<TRUE>>
        /\ returned' = <<FALSE>> => dispositions'[1] = Reject(TRUE)
        /\ dispositions'[1] = Reject(FALSE)
              <=> ~(Head(queue).decodes /\ Head(queue).json)]_vars

(***************************************************************************)
(* Specification of concurrent callers: two threads inside calculate_score *)
(* of one LeadScoringService, their statements interleaved.  The service   *)
(* (self.config) and the Company objects are shared; variant,              *)
(* variant_config, contacts, the component scores, total_score and the     *)
(* explanations are locals of each call's frame.  The clock is read inside *)
(* the call and is held still here.                                        *)
(***************************************************************************)

Callers == {"t1", "t2"}

\* the Company objects of the session the callers share
SharedRecords == [id \in DbIds |-> DbCompany(id)]

\* the arguments of one call: company, contacts, algorithm_variant
CallArgs ==
    {[company_id |-> id, contacts |-> cts, algorithm_variant |-> ov] :
        id \in DbIds, cts \in {<<>>, << <<AllFlagsContact>> >>},
        ov \in {None, "variant_a"}}

\* a frame before its first statement
NewCall(args) ==
    [pc |-> "start", args |-> args, locals |-> <<>>, overlapped |-> FALSE,
     result |-> <<>>]

\* local names bound as if they were attributes of the shared service
SetLocalsOnSelf(cs, t, fields) ==
    [u \in DOMAIN cs |-> [cs[u] EXCEPT !.locals = fields @@ @]]

\* an assignment to local names of caller t's frame
SetLocals(cs, t, fields) == [cs EXCEPT ![t].locals = fields @@ @]

\* caller t is between its first statement and its return
InCall(cs, t) == cs[t].pc \notin {"start", "returned", "raised"}

\* caller t moves to position p; overlapped records that another caller was
\* inside calculate_score at one of t's statements
Advance(cs, t, p) ==
    [cs EXCEPT ![t].pc = p,
               ![t].overlapped = @ \/ \E u \in DOMAIN cs \ {t} : InCall(cs, u)]

\* the LeadScore built from the frame's locals, lines 79-97
LeadScoreOf(c, co, loc) ==
    [company_id |-> co.id,
     total_score |-> Trunc(loc.total_score, 1000),
     score_grade |-> calculate_grade(Trunc(loc.total_score, 1000)),
     industry_score |-> Trunc(loc.industry_score, 10),
     size_score |-> Trunc(loc.size_score, 10),
     location_score |-> 0,
     data_quality_score |-> Trunc(loc.data_quality_score, 10),
     engagement_score |-> Trunc(loc.contact_score, 10),
     scoring_factors |-> loc.scoring_factors,
     industry_risk_level |-> get_industry_weight(c, co.naics_code).risk_level,
     industry_multiplier |-> get_industry_weight(c, co.naics_code).weight,
     employee_count_used |-> _get_employee_count(co),
     size_category |-> get_employee_size_config(c, _get_employee_count(co)).category,
     score_reasons |-> loc.score_reasons,
     recommendations |-> _generate_recommendations(co, loc.total_score),
     scoring_version |-> loc.variant_config.version,
     created_by |-> "algorithm_" \o loc.variant]

InitConcurrent ==
    /\ cfg \in {DefaultConfig, ABConfig}
    /\ now = StartDay
    /\ pc = "start"
    /\ records = SharedRecords
    /\ calls \in [Callers -> {NewCall(a) : a \in CallArgs}]
    /\ IdleScore /\ IdleIndustry /\ IdleVariant /\ IdleGrade /\ IdleBatch
    /\ IdleComponent /\ IdleConstruct /\ IdleWorker /\ IdleAnalyzer

ConcurrentFrame ==
    UNCHANGED <<cfg, now, pc, records, scoreVars, industryVars, variantVars,
                gradeVars, batchVars, componentVars, constructVars, workerVars,
                analyzerVars>>

\* lines 48-49
AssignVariant(t) ==
    /\ calls[t].pc = "start"
    /\ LET co == records[calls[t].args.company_id]
           variant == ResolveVariant(cfg, co, calls[t].args.algorithm_variant)
       IN  IF _get_variant_config_raises(cfg, variant)
           THEN calls' = Advance(calls, t, "raised")
           ELSE calls' = Advance(
                    SetLocals(calls, t,
                        [variant |-> variant,
                         variant_config |-> _get_variant_config(cfg, variant)]),
                    t, "variant")
    /\ ConcurrentFrame

\* lines 52-53
AssignContacts(t) ==
    /\ calls[t].pc = "variant"
    /\ LET co == records[calls[t].args.company_id]
           cts == calls[t].args.contacts
       IN  calls' = Advance(
               SetLocals(calls, t,
                   [contacts |-> IF cts = <<>> THEN co.contacts ELSE cts[1]]),
               t, "contacts")
    /\ ConcurrentFrame

\* lines 56-59
AssignComponentScores(t) ==
    /\ calls[t].pc = "contacts"
    /\ LET co == records[calls[t].args.company_id]
       IN  IF \/ _get_employee_count_raises(co)
              \/ get_employee_size_config_raises(cfg, _get_employee_count(co))
           THEN calls' = Advance(calls, t, "raised")
           ELSE calls' = Advance(
                    SetLocals(calls, t,
                        [industry_score |-> _calculate_industry_score(cfg, co),
                         size_score |-> _calculate_size_score(cfg, co),
                         contact_score |->
                             _calculate_contact_score(cfg, calls[t].locals.contacts),
                         data_quality_score |->
                             _calculate_data_quality_score(cfg, co, now)]),
                    t, "components")
    /\ ConcurrentFrame

\* lines 62-70
AssignTotalScore(t) ==
    /\ calls[t].pc = "components"
    /\ LET loc == calls[t].locals
       IN  calls' = Advance(
               SetLocals(calls, t,
                   [total_score |->
                        TotalScore(WeightedSum(loc.variant_config,
                            loc.industry_score, loc.size_score,
                            loc.contact_score, loc.data_quality_score))]),
               t, "total")
    /\ ConcurrentFrame

\* lines 73-76
AssignReasons(t) ==
    /\ calls[t].pc = "total"
    /\ LET loc == calls[t].locals
           co == records[calls[t].args.company_id]
       IN  \E factors \in {_generate_scoring_factors(cfg, now, co, loc.contacts,
                               loc.industry_score, loc.size_score,
                               loc.contact_score, loc.data_quality_score)} :
               calls' = Advance(
                   SetLocals(calls, t,
                       [scoring_factors |-> factors,
                        score_reasons |-> _generate_score_reasons(factors)]),
                   t, "reasons")
    /\ ConcurrentFrame

\* lines 79-105
ReturnLeadScore(t) ==
    /\ calls[t].pc = "reasons"
    /\ LET co == records[calls[t].args.company_id]
       IN  calls' = [Advance(calls, t, "returned") EXCEPT
                        ![t].result = <<LeadScoreOf(cfg, co, calls[t].locals)>>]
    /\ ConcurrentFrame

NextConcurrent ==
    \E t \in Callers :
        \/ AssignVariant(t)
        \/ AssignContacts(t)
        \/ AssignComponentScores(t)
        \/ AssignTotalScore(t)
        \/ AssignReasons(t)
        \/ ReturnLeadScore(t)

SpecConcurrent == InitConcurrent /\ [][NextConcurrent]_vars

\* the result of caller t's call, were it the only call running
AloneResult(t) ==
    calculate_score(cfg, now, SharedRecords[calls[t].args.company_id],
                    calls[t].args.contacts, calls[t].args.algorithm_variant)

\* C21: no step of a call changes the loaded config or a shared Company (its
\* contacts included), and in every interleaving of two calls, on the same or
\* on different companies, each call that returns has returned the LeadScore
\* the same call returns when run alone.
C21_InterleavedCallsReturnAloneResult ==
    [][/\ cfg' = cfg /\ records' = records
       /\ \A t \in Callers :
            calls[t].pc # "returned" /\ calls'[t].pc = "returned"
                => calls'[t].result = <<AloneResult(t)>>]_vars

\* C21 witness: two calls on the same company with different variants, each
\* having run statements while the other was inside calculate_score, have both
\* returned, with different LeadScores.
C21_Witness ==
    /\ calls # <<>>
    /\ \A t \in Callers : calls[t].pc = "returned" /\ calls[t].overlapped
    /\ calls["t1"].args.company_id = calls["t2"].args.company_id
    /\ calls["t1"].result # calls["t2"].result
    /\ \A t \in Callers : calls[t].result = <<AloneResult(t)>>

\* the weights calculate_score multiplies with
ResolvedWeights == _get_variant_config(cfg, ResolveVariant(cfg, company, override))

\* C22: total_score is the integer part of min(100, industry*w_industry
\* + size*w_size + contact*w_contact + data_quality*w_data_quality) for the
\* weights of the resolved variant, where each component is capped at its own
\* limit (industry 100, size 100, contact max_contact_score, data quality 20)
\* before it is multiplied, the clamp is applied to the sum only, and the
\* component scores stored on the LeadScore are the pre-weight values.
C22_TotalIsIntegerPartOfClampedSum ==
    Scored =>
        \E industry \in {_calculate_industry_score(cfg, company)},
           size \in {_calculate_size_score(cfg, company)},
           contact \in {_calculate_contact_score(cfg, ContactsUsed)},
           quality \in {_calculate_data_quality_score(cfg, company, now)} :
            /\ industry <= 1000 /\ size <= 1000 /\ quality <= 200
            /\ contact <= 10 * cfg.contact_scoring.max_contact_score
            /\ Score.total_score =
                 Trunc(Min(100000, ExactWeightedSum(ResolvedWeights, industry,
                                       size, contact, quality)), 1000)
            /\ Score.industry_score = Trunc(industry, 10)
            /\ Score.size_score = Trunc(size, 10)
            /\ Score.engagement_score = Trunc(contact, 10)
            /\ Score.data_quality_score = Trunc(quality, 10)

====
